---- MODULE Spec2Model ----
(***************************************************************************)
(* A model of the mythos kernel (src/src): the bump frame allocator, the   *)
(* kernel and user page-table mappers, the ELF loader and the program      *)
(* stack.                                                                  *)
(*                                                                         *)
(* Physical memory is an array of frames of PageSize cells; a cell stands  *)
(* for a byte and holds a digit in 0..CellBase-1.  A relocation word is    *)
(* WordSize cells, little-endian.  Virtual and physical addresses are cell *)
(* indices.  The page tables are the partial function pt (leaf entries)    *)
(* and the function tables (intermediate levels, with their flags).        *)
(*                                                                         *)
(* The ELF header, program headers, dynamic entries and relocation table   *)
(* are held as structured data (the record elf); segment contents are the  *)
(* cells of the file image in physical memory.                             *)
(***************************************************************************)
EXTENDS Integers, Sequences, FiniteSets, TLC

(* ---------------------------------------------------------------------- *)
(* Bounds of the model                                                     *)
(* ---------------------------------------------------------------------- *)
\* cells in a relocation word (a u64 in the source)
WordSize == 2
\* words in a page
WordsPerPage == 2
\* a cell holds a digit below CellBase
CellBase == 4
\* entries in a page table of any level
EntriesPerTable == 2
\* pages of virtual address space below EXECUTION_MEMORY_START
ElfPages == 6
\* pages of the kernel stack, kernel heap, user stack and user heap windows
KernelStackPages == 2
KernelHeapPages == 1
UserStackPages == 2
UserHeapPages == 1
\* physical frames of the machine
NumFrames == 40
\* calls of load_program in one run
MaxLoads == 2
\* calls made on the UserMemoryMapper's interface in one run
MaxCalls == 3
\* calls made on a UniqueLock, a UniqueOnce and the logger in one run
MaxOps == 4
\* syscalls of the running programs in one run
MaxSyscalls == 2
\* programs on the program stack when program.rs is called on its own
MaxPrograms == 2
\* entries of a partition table that are set before it is serialized and parsed
MaxEdits == 2
\* a u32 half of a syscall argument holds a value below U32Range
U32Range == 4
\* columns and rows of a TextScreen
TextWidth == 2
TextHeight == 2

PageSize == WordSize * WordsPerPage

(* ---------------------------------------------------------------------- *)
(* Page-table flags                                                        *)
(* ---------------------------------------------------------------------- *)
PRESENT == "PRESENT"
WRITABLE == "WRITABLE"
USER_ACCESSIBLE == "USER_ACCESSIBLE"
NO_EXECUTE == "NO_EXECUTE"
BIT_9 == "BIT_9"
COPIED == BIT_9

NoFrame == -1

(* ---------------------------------------------------------------------- *)
(* Virtual memory layout                                                   *)
(* ---------------------------------------------------------------------- *)
VirtMemRange(start, size) == [start |-> start, size |-> size]
end_u64(r) == r.start + r.size
last_addr(r) == r.start + r.size - 1
\* stacks must be 16-byte aligned in the source: two words here
stack_start(r) == r.start + r.size - 2 * WordSize

EXECUTION_MEMORY_START == ElfPages * PageSize
KERNEL_STACK_MEMORY == VirtMemRange(EXECUTION_MEMORY_START, KernelStackPages * PageSize)
\* a kernel heap laid over the second page of the kernel stack
KernelHeapOverStack ==
    VirtMemRange(KERNEL_STACK_MEMORY.start + PageSize, KernelHeapPages * PageSize)
KERNEL_HEAP_MEMORY == VirtMemRange(end_u64(KERNEL_STACK_MEMORY), KernelHeapPages * PageSize)
USER_STACK_MEMORY == VirtMemRange(end_u64(KERNEL_HEAP_MEMORY), UserStackPages * PageSize)
USER_HEAP_MEMORY == VirtMemRange(end_u64(USER_STACK_MEMORY), UserHeapPages * PageSize)

NumPages == ElfPages + KernelStackPages + KernelHeapPages + UserStackPages + UserHeapPages
Pages == 0 .. (NumPages - 1)
Frames == 0 .. (NumFrames - 1)

\* Page::containing_address / PhysFrame::containing_address
containing_address(addr) == addr \div PageSize
start_address(p) == p * PageSize
\* x86_64::align_up
align_up(addr, align) == ((addr + align - 1) \div align) * align
\* Page::range_inclusive / PhysFrame::range_inclusive, in order
RECURSIVE range_inclusive(_, _)
range_inclusive(a, b) == IF a > b THEN << >> ELSE <<a>> \o range_inclusive(a + 1, b)

(* ---------------------------------------------------------------------- *)
(* Physical frame allocator                                                *)
(* ---------------------------------------------------------------------- *)
\* the frame start addresses of one region: (start..end).step_by(4096)
RECURSIVE step_by(_, _)
step_by(start, end) ==
    IF start >= end THEN << >>
    ELSE <<containing_address(start)>> \o step_by(start + PageSize, end)

\* BootInfoFrameAllocator::usable_frames, as the sequence the iterator yields
RECURSIVE usable_frames(_)
usable_frames(regions) ==
    IF regions = << >> THEN << >>
    ELSE (IF Head(regions).kind = "Usable"
          THEN step_by(Head(regions).start, Head(regions).end)
          ELSE << >>) \o usable_frames(Tail(regions))

\* Iterator::nth
nth(seq, n) == IF n < Len(seq) THEN seq[n + 1] ELSE NoFrame

(***************************************************************************)
(* The operators below act on a machine record m:                          *)
(*   regions  the bootloader's memory map                                  *)
(*   next     BootInfoFrameAllocator.next                                  *)
(*   out      the frames allocate_frame has returned so far, in order      *)
(*   pt       leaf page-table entries, page -> [frame, flags]              *)
(*   tables   intermediate page tables, <<level, index>> -> flags          *)
(*   mem      physical memory, frame -> cell offset -> digit               *)
(*   lmap     the local_map of the UserMemoryMapper's MemoryContext        *)
(* and return a record with the new machine and a result.                  *)
(***************************************************************************)

\* Ok(()) and Err(error) with the machine they leave behind
Done(m) == [m |-> m, res |-> "Ok"]
Fail(m, error) == [m |-> m, res |-> error]
\* the one value of a singleton set: With({e(x) : x \in {v}}) is `let x = v; e(x)`
With(S) == CHOOSE x \in S : TRUE

\* an allocator whose cursor starts over when the frames run out
allocate_frame_wrapping(m) ==
    With({[m |-> [m EXCEPT !.next = @ + 1,
                           !.out = IF frame = NoFrame THEN @ ELSE Append(@, frame)],
           frame |-> frame] :
          frame \in {IF usable_frames(m.regions) = << >> THEN NoFrame
                     ELSE nth(usable_frames(m.regions),
                              m.next % Len(usable_frames(m.regions)))}})
\* an allocator that hands out every frame twice
allocate_frame_twice(m) ==
    With({[m |-> [m EXCEPT !.next = @ + 1,
                           !.out = IF frame = NoFrame THEN @ ELSE Append(@, frame)],
           frame |-> frame] :
          frame \in {nth(usable_frames(m.regions), m.next \div 2)}})
\* BootInfoFrameAllocator::allocate_frame
allocate_frame(m) ==
    With({[m |-> [m EXCEPT !.next = @ + 1,
                           !.out = IF frame = NoFrame THEN @ ELSE Append(@, frame)],
           frame |-> frame] :
          frame \in {nth(usable_frames(m.regions), m.next)}})

(* ---------------------------------------------------------------------- *)
(* Kernel page-table mapper                                                *)
(* ---------------------------------------------------------------------- *)
RECURSIVE Pow(_, _)
Pow(b, e) == IF e = 0 THEN 1 ELSE b * Pow(b, e - 1)

\* the table of the given level that holds the entry for page
TableOf(level, page) == <<level, page \div Pow(EntriesPerTable, level)>>

ParentFlags(flags) == flags \cap {PRESENT, WRITABLE, USER_ACCESSIBLE}

\* PageTableWalker::create_next_table of OffsetPageTable::map_to
create_next_table(m, id, insert_flags) ==
    IF id \in DOMAIN m.tables
    THEN Done([m EXCEPT !.tables[id] = @ \cup insert_flags])
    ELSE With({IF a.frame = NoFrame
               THEN Fail(a.m, "FrameAllocationFailed")
               ELSE Done([a.m EXCEPT !.tables = @ @@ (id :> insert_flags)]) :
               a \in {allocate_frame(m)}})

\* a leaf entry that is written over whatever it holds
MapLeafOverwrite(m, page, frame, flags) ==
    Done([m EXCEPT !.pt = [q \in (DOMAIN m.pt) \cup {page} |->
                              IF q = page THEN [frame |-> frame, flags |-> flags]
                              ELSE m.pt[q]]])
\* the leaf entry of map_to
MapLeaf(m, page, frame, flags) ==
    IF page \in DOMAIN m.pt
    THEN Fail(m, "PageAlreadyMapped")
    ELSE Done([m EXCEPT !.pt = @ @@ (page :> [frame |-> frame, flags |-> flags])])

\* the walk of map_to from the table of the given level down to the leaf
RECURSIVE WalkTables(_, _, _, _, _)
WalkTables(m, level, page, frame, flags) ==
    IF level = 0 THEN MapLeaf(m, page, frame, flags)
    ELSE With({IF t.res # "Ok" THEN t ELSE WalkTables(t.m, level - 1, page, frame, flags) :
               t \in {create_next_table(m, TableOf(level, page), ParentFlags(flags))}})

\* KernelMemoryMapper::map_page: OffsetPageTable::map_to for a 4 KiB page
KernelMapPage(m, page, frame, flags) == WalkTables(m, 3, page, frame, flags)

\* an unmap that leaves the entry in place
UnmapKeepsEntry(m, page) ==
    IF page \in DOMAIN m.pt THEN Done(m) ELSE Fail(m, "PageNotMapped")
\* OffsetPageTable::unmap
KernelUnmap(m, page) ==
    IF page \in DOMAIN m.pt
    THEN Done([m EXCEPT !.pt = [q \in (DOMAIN m.pt) \ {page} |-> m.pt[q]]])
    ELSE Fail(m, "PageNotMapped")

\* OffsetPageTable::update_flags
update_flags(m, page, flags) == [m EXCEPT !.pt[page].flags = flags]

\* KernelMemoryMapper::translate_page / Translate::translate
Mapped(m, page) == page \in DOMAIN m.pt

(* ---------------------------------------------------------------------- *)
(* User memory mapper                                                      *)
(* ---------------------------------------------------------------------- *)
\* BTreeMap::insert
MapInsert(f, k, v) == [q \in (DOMAIN f) \cup {k} |-> IF q = k THEN v ELSE f[q]]
\* BTreeMap::remove
MapRemove(f, k) == [q \in (DOMAIN f) \ {k} |-> f[q]]

\* a map_page that passes the caller's flags on as they are
UserMapPageAsGiven(m, page, frame, flags) ==
    KernelMapPage(
        [m EXCEPT !.lmap = MapInsert(@, page, [frame |-> frame, flags |-> flags])],
        page, frame, flags)
\* UserMemoryMapper::map_page
UserMapPage(m, page, frame, flags) ==
    KernelMapPage(
        [m EXCEPT !.lmap = MapInsert(@, page, [frame |-> frame,
                                               flags |-> flags \cup {USER_ACCESSIBLE}])],
        page, frame, flags \cup {USER_ACCESSIBLE})

\* UserMemoryMapper::unmap_page
UserUnmapPage(m, page) ==
    KernelUnmap([m EXCEPT !.lmap = MapRemove(@, page)], page)

\* MemoryMapper::map_page of the kernel mapper or of the user mapper
MapPage(m, page, frame, flags, user) ==
    IF user THEN UserMapPage(m, page, frame, flags) ELSE KernelMapPage(m, page, frame, flags)

\* MemoryMapper::alloc_writable_range, over the pages still to map
RECURSIVE AllocPages(_, _, _)
AllocPages(m, pages, user) ==
    IF pages = << >> THEN Done(m)
    ELSE With({IF a.frame = NoFrame THEN Fail(a.m, "FrameAllocationFailed")
               ELSE With({IF r.res # "Ok" THEN r ELSE AllocPages(r.m, Tail(pages), user) :
                          r \in {MapPage(a.m, Head(pages), a.frame, {PRESENT, WRITABLE},
                                         user)}}) :
               a \in {allocate_frame(m)}})

alloc_writable_range(m, range, user) ==
    AllocPages(m,
               range_inclusive(range.start \div PageSize, containing_address(last_addr(range))),
               user)

(* ---------------------------------------------------------------------- *)
(* Physical memory                                                         *)
(* ---------------------------------------------------------------------- *)
Offsets == 0 .. (PageSize - 1)
Digits == 0 .. (CellBase - 1)
\* what a frame holds before anything is written to it
Garbage == CellBase - 1
\* the bytes of a program file on disk
FileByte(i) == 1 + (i % (CellBase - 1))

\* a zeroing that starts one cell late
ZeroTailFromNext(mem, frame, from) ==
    [mem EXCEPT ![frame] = [o \in Offsets |-> IF o > from THEN 0 ELSE @[o]]]
\* core::ptr::write_bytes(ptr.add(from), 0, PageSize - from)
ZeroTail(mem, frame, from) ==
    [mem EXCEPT ![frame] = [o \in Offsets |-> IF o >= from THEN 0 ELSE @[o]]]
\* frame_ptr.write(ZERO_ARRAY)
ZeroFrame(mem, frame) == [mem EXCEPT ![frame] = [o \in Offsets |-> 0]]
\* core::ptr::copy_nonoverlapping(frame_ptr, new_frame_ptr, PageSize)
CopyFrame(mem, from, to) == [mem EXCEPT ![to] = mem[from]]
\* the little-endian cells of a word
WordDigit(value, i) == (value \div Pow(CellBase, i)) % CellBase
\* a write that drops the offset in the page
WriteWordAtFrameStart(mem, phys, value) ==
    [mem EXCEPT ![containing_address(phys)] =
        [o \in Offsets |-> IF o < WordSize THEN WordDigit(value, o) ELSE @[o]]]
\* addr.write(value) at a physical address
WriteWord(mem, phys, value) ==
    [mem EXCEPT ![containing_address(phys)] =
        [o \in Offsets |->
            IF o >= phys % PageSize /\ o < (phys % PageSize) + WordSize
            THEN WordDigit(value, o - (phys % PageSize))
            ELSE @[o]]]
\* core::ptr::copy of one sector: num_bytes file bytes from file position pos
CopySector(mem, addr, pos, num_bytes) ==
    [mem EXCEPT ![containing_address(addr)] =
        [o \in Offsets |->
            IF o >= addr % PageSize /\ o < (addr % PageSize) + num_bytes
            THEN FileByte(pos + o - (addr % PageSize))
            ELSE @[o]]]

(* ---------------------------------------------------------------------- *)
(* ELF loader                                                              *)
(* ---------------------------------------------------------------------- *)
\* Inner.virtual_address_offset, the load bias
virtual_address_offset == 0
\* the relocation type the loader implements
R_AMD64_RELATIVE == 8

\* the page flags of a LOAD segment
SegmentFlags(segment) ==
    {PRESENT} \cup (IF segment.x THEN {} ELSE {NO_EXECUTE})
              \cup (IF segment.w THEN {WRITABLE} ELSE {})

\* results of make_mut carry the frame that may be written
DoneFrame(m, frame) == [m |-> m, res |-> "Ok", frame |-> frame]
PanicFrame(m) == [m |-> m, res |-> "Panic", frame |-> NoFrame]

\* Inner::make_mut once the copy is made: unmap the page, map it to the new frame
Remap(m, page, new_frame, flags) ==
    With({IF u.res # "Ok" THEN PanicFrame(u.m)
          ELSE With({IF r.res # "Ok" THEN PanicFrame(r.m) ELSE DoneFrame(r.m, new_frame) :
                     r \in {UserMapPage(u.m, page, new_frame, flags \cup {COPIED})}}) :
          u \in {UserUnmapPage(m, page)}})

\* Inner::make_mut, for a page that is mapped and not yet copied
CopyAndRemap(m, page, frame, flags) ==
    With({IF a.frame = NoFrame THEN PanicFrame(a.m)
          ELSE Remap([a.m EXCEPT !.mem = CopyFrame(@, frame, a.frame)], page, a.frame, flags) :
          a \in {allocate_frame(m)}})

\* a make_mut that hands out the mapped frame without copying it
make_mut_in_place(m, page) ==
    IF ~Mapped(m, page) THEN PanicFrame(m) ELSE DoneFrame(m, m.pt[page].frame)
\* Inner::make_mut
make_mut(m, page) ==
    IF ~Mapped(m, page) THEN PanicFrame(m)
    ELSE IF COPIED \in m.pt[page].flags THEN DoneFrame(m, m.pt[page].frame)
    ELSE CopyAndRemap(m, page, m.pt[page].frame, m.pt[page].flags)

\* map_err(|_err| msg)
MapErr(r, msg) == IF r.res # "Ok" THEN Fail(r.m, msg) ELSE r

\* the loop of handle_bss_section that maps fresh zeroed frames
RECURSIVE MapBssPages(_, _, _)
MapBssPages(m, pages, segment_flags) ==
    IF pages = << >> THEN Done(m)
    ELSE With({IF a.frame = NoFrame THEN Fail(a.m, "Panic")
               ELSE With({IF r.res # "Ok" THEN r
                          ELSE MapBssPages(r.m, Tail(pages), segment_flags) :
                          r \in {MapErr(UserMapPage([a.m EXCEPT !.mem = ZeroFrame(@, a.frame)],
                                                    Head(pages), a.frame, segment_flags),
                                        "failed to map new frame for bss memory")}}) :
               a \in {allocate_frame(m)}})

\* the first and the last page that handle_bss_section maps fresh
BssStartPage(zero_start) == containing_address(align_up(zero_start, PageSize))
BssEndPage(zero_end) == containing_address(zero_end)

\* handle_bss_section: the last file-backed page is copied and its tail zeroed
ZeroLastPage(m, last_page, data_bytes_before_zero) ==
    With({IF k.res # "Ok" THEN Fail(k.m, k.res)
          ELSE Done([k.m EXCEPT !.mem = ZeroTail(@, k.frame, data_bytes_before_zero)]) :
          k \in {make_mut(m, last_page)}})

\* Inner::handle_bss_section
handle_bss_section(m, segment, segment_flags) ==
    With({IF c.res # "Ok" THEN c
          ELSE MapBssPages(c.m,
                   range_inclusive(
                       BssStartPage(segment.vaddr + virtual_address_offset
                                    + segment.file_size),
                       BssEndPage(segment.vaddr + virtual_address_offset + segment.mem_size)),
                   segment_flags) :
          c \in {IF (segment.vaddr + virtual_address_offset + segment.file_size) % PageSize # 0
                 THEN ZeroLastPage(m,
                          containing_address(segment.vaddr + virtual_address_offset
                                             + segment.file_size - 1),
                          (segment.vaddr + virtual_address_offset + segment.file_size)
                              % PageSize)
                 ELSE Done(m)}})

\* the loop of handle_load_segment that maps the file's frames
RECURSIVE MapFileFrames(_, _, _, _, _)
MapFileFrames(m, frames, start_frame, start_page, segment_flags) ==
    IF frames = << >> THEN Done(m)
    ELSE With({IF r.res # "Ok" THEN r
               ELSE MapFileFrames(r.m, Tail(frames), start_frame, start_page, segment_flags) :
               r \in {MapErr(UserMapPage(m, start_page + (Head(frames) - start_frame),
                                         Head(frames), segment_flags),
                             "map_to failed")}})

\* Inner::handle_load_segment
handle_load_segment(m, segment, file_addr) ==
    With({IF r.res # "Ok" THEN r
          ELSE IF segment.mem_size > segment.file_size
          THEN handle_bss_section(r.m, segment, SegmentFlags(segment))
          ELSE r :
          r \in {MapFileFrames(m,
                     range_inclusive(containing_address(file_addr + segment.offset),
                                     containing_address(file_addr + segment.offset
                                                        + segment.file_size - 1)),
                     containing_address(file_addr + segment.offset),
                     containing_address(segment.vaddr + virtual_address_offset),
                     SegmentFlags(segment))}})

\* the LOAD program headers of an ELF file, in order
LoadSegments(file) == SelectSeq(file.phs, LAMBDA ph : ph.type = "Load")

\* check_is_in_load
check_is_in_load(file, virt_offset) ==
    \E i \in 1 .. Len(file.phs) :
        /\ file.phs[i].type = "Load"
        /\ file.phs[i].vaddr <= virt_offset
        /\ virt_offset - file.phs[i].vaddr < file.phs[i].file_size

\* how often a tag occurs among the dynamic entries
TagCount(tags, tag) == Cardinality({i \in 1 .. Len(tags) : tags[i].tag = tag})
TagVal(tags, tag) == tags[CHOOSE i \in 1 .. Len(tags) : tags[i].tag = tag].val

\* the scan of handle_dynamic_segment for Rela, RelaSize and RelaEnt: the
\* first tag that occurs a second time ends the scan with its error
RECURSIVE ScanTags(_, _)
ScanTags(tags, seen) ==
    IF tags = << >> THEN "Ok"
    ELSE IF Head(tags).tag \in seen /\ Head(tags).tag = "Rela"
    THEN "Dynamic section contains more than one Rela entry"
    ELSE IF Head(tags).tag \in seen /\ Head(tags).tag = "RelaSize"
    THEN "Dynamic section contains more than one RelaSize entry"
    ELSE IF Head(tags).tag \in seen /\ Head(tags).tag = "RelaEnt"
    THEN "Dynamic section contains more than one RelaEnt entry"
    ELSE ScanTags(Tail(tags), seen \cup {Head(tags).tag})

\* the write of one relocated value, after make_mut
WriteRelocated(m, addr, value) ==
    With({IF k.res # "Ok" THEN Fail(k.m, k.res)
          ELSE Done([k.m EXCEPT !.mem =
                        WriteWord(@, start_address(k.frame) + (addr % PageSize), value)]) :
          k \in {make_mut(m, containing_address(addr))}})

\* one relocation entry of handle_dynamic_segment
ApplyRela(m, file, rela) ==
    IF rela.sym # 0 THEN Fail(m, "Panic")
    ELSE IF rela.type # R_AMD64_RELATIVE THEN Fail(m, "Panic")
    ELSE IF ~check_is_in_load(file, rela.offset)
    THEN Fail(m, "offset is not in load segment")
    ELSE IF (virtual_address_offset + rela.offset) % WordSize # 0
    THEN Fail(m, "destination of relocation is not aligned")
    ELSE WriteRelocated(m, virtual_address_offset + rela.offset,
                        virtual_address_offset + rela.addend)

RECURSIVE ApplyRelas(_, _, _)
ApplyRelas(m, file, relas) ==
    IF relas = << >> THEN Done(m)
    ELSE With({IF r.res # "Ok" THEN r ELSE ApplyRelas(r.m, file, Tail(relas)) :
               r \in {ApplyRela(m, file, Head(relas))}})

\* handle_dynamic_segment once Rela, RelaSize and RelaEnt are known: a zero
\* entry size divides by zero and a table that leaves the file fails an
\* assertion
ApplyTable(m, file, total_size, entry_size) ==
    IF entry_size = 0 THEN Fail(m, "Panic")
    ELSE IF total_size \div entry_size > Len(file.relas) THEN Fail(m, "Panic")
    ELSE ApplyRelas(m, file, SubSeq(file.relas, 1, total_size \div entry_size))

\* Inner::handle_dynamic_segment
handle_dynamic_segment(m, segment, file) ==
    IF ScanTags(segment.tags, {}) # "Ok" THEN Fail(m, ScanTags(segment.tags, {}))
    ELSE IF TagCount(segment.tags, "Rela") = 0
    THEN IF TagCount(segment.tags, "RelaSize") > 0 \/ TagCount(segment.tags, "RelaEnt") > 0
         THEN Fail(m, "Rela entry is missing but RelaSize or RelaEnt have been provided")
         ELSE Done(m)
    ELSE IF TagCount(segment.tags, "RelaSize") = 0 THEN Fail(m, "RelaSize entry is missing")
    ELSE IF TagCount(segment.tags, "RelaEnt") = 0 THEN Fail(m, "RelaEnt entry is missing")
    ELSE ApplyTable(m, file, TagVal(segment.tags, "RelaSize"), TagVal(segment.tags, "RelaEnt"))

\* the pages a GNU_RELRO or LOAD header covers: containing(start) ..= containing(end - 1)
HeaderPages(program_header) ==
    range_inclusive(
        containing_address(virtual_address_offset + program_header.vaddr),
        containing_address(virtual_address_offset + program_header.vaddr
                           + program_header.mem_size - 1))

\* the page loop of handle_relro_segment and remove_copied_flags
RECURSIVE ClearFlag(_, _, _)
ClearFlag(m, pages, flag) ==
    IF pages = << >> THEN Done(m)
    ELSE IF ~Mapped(m, Head(pages)) THEN Fail(m, "Panic")
    ELSE ClearFlag(IF flag \in m.pt[Head(pages)].flags
                   THEN update_flags(m, Head(pages), m.pt[Head(pages)].flags \ {flag})
                   ELSE m,
                   Tail(pages), flag)

\* a walk over the pages of a GNU_RELRO header that stops before the last page
relro_exclusive_range(m, program_header) ==
    ClearFlag(m,
              range_inclusive(
                  containing_address(virtual_address_offset + program_header.vaddr),
                  containing_address(virtual_address_offset + program_header.vaddr
                                     + program_header.mem_size - 1) - 1),
              WRITABLE)
\* Inner::handle_relro_segment
handle_relro_segment(m, program_header) ==
    IF virtual_address_offset + program_header.vaddr + program_header.mem_size = 0
    THEN Fail(m, "Panic")
    ELSE ClearFlag(m, HeaderPages(program_header), WRITABLE)

\* a cleanup that walks the first LOAD header only
remove_copied_flags_first(m, loads_left) ==
    IF loads_left = << >> THEN Done(m)
    ELSE ClearFlag(m, HeaderPages(Head(loads_left)), COPIED)
\* Inner::remove_copied_flags, over the LOAD headers still to walk
RECURSIVE remove_copied_flags(_, _)
remove_copied_flags(m, loads_left) ==
    IF loads_left = << >> THEN Done(m)
    ELSE IF virtual_address_offset + Head(loads_left).vaddr + Head(loads_left).mem_size = 0
    THEN Fail(m, "Panic")
    ELSE With({IF r.res # "Ok" THEN r ELSE remove_copied_flags(r.m, Tail(loads_left)) :
               r \in {ClearFlag(m, HeaderPages(Head(loads_left)), COPIED)}})

\* program::sanity_check of one program header
ProgramSanity(ph, file) == ph.offset + ph.file_size < file.file_len

\* Loader::new
LoaderNew(file) ==
    IF ~file.magic THEN "Did not find ELF magic number"
    ELSE IF \E i \in 1 .. Len(file.phs) : ~ProgramSanity(file.phs[i], file)
    THEN "entry point out of range"
    ELSE IF file.etype # "Executable" THEN "Panic"
    ELSE "Ok"

\* cells in a disk sector
SectorSize == WordSize
NumBytes(file_size, len) == IF len - file_size < SectorSize THEN len - file_size ELSE SectorSize

\* the sector loop of load_from_disk
RECURSIVE ReadSectors(_, _, _, _, _)
ReadSectors(m, phys_frame, addr, file_size, len) ==
    IF file_size = len THEN Done(m)
    ELSE IF addr + NumBytes(file_size, len) >= start_address(phys_frame) + PageSize
    THEN With({IF a.frame = NoFrame THEN Fail(a.m, "Panic")
               ELSE IF start_address(a.frame) # addr + NumBytes(file_size, len)
               THEN Fail(a.m, "Panic")
               ELSE ReadSectors(a.m, a.frame, addr + NumBytes(file_size, len),
                                file_size + NumBytes(file_size, len), len) :
               a \in {allocate_frame([m EXCEPT !.mem =
                          CopySector(@, addr, file_size, NumBytes(file_size, len))])}})
    ELSE ReadSectors([m EXCEPT !.mem = CopySector(@, addr, file_size, NumBytes(file_size, len))],
                     phys_frame, addr + NumBytes(file_size, len),
                     file_size + NumBytes(file_size, len), len)

\* load_from_disk up to the construction of the Loader, from its first frame on
ReadFrom(m, frame, file) ==
    With({[m |-> r.m, res |-> r.res, start_addr |-> start_address(frame)] :
          r \in {ReadSectors(m, frame, start_address(frame), 0, file.file_len)}})

\* load_from_disk up to the construction of the Loader
ReadFile(m, file) ==
    With({IF a.frame = NoFrame
          THEN [m |-> a.m, res |-> "Panic", start_addr |-> 0]
          ELSE ReadFrom(a.m, a.frame, file) :
          a \in {allocate_frame(m)}})

(* ---------------------------------------------------------------------- *)
(* Inputs: memory maps and program files                                   *)
(* ---------------------------------------------------------------------- *)
Region(start, end, kind) == [start |-> start, end |-> end, kind |-> kind]

\* frame 0 is reserved, every other frame is usable
FullMap ==
    <<Region(0, PageSize, "Reserved"), Region(PageSize, NumFrames * PageSize, "Usable")>>
\* a map with only n usable frames
SmallMap(n) ==
    <<Region(0, PageSize, "Reserved"), Region(PageSize, (n + 1) * PageSize, "Usable")>>
\* two usable regions with a reserved frame between them
GapMap(n) ==
    <<Region(0, PageSize, "Reserved"), Region(PageSize, (n + 1) * PageSize, "Usable"),
      Region((n + 1) * PageSize, (n + 2) * PageSize, "Reserved"),
      Region((n + 2) * PageSize, NumFrames * PageSize, "Usable")>>

\* the first page of the second LOAD segment of the program files
SegBPage == 3
\* size_of::<Rela<u64>>(): three words
RelaEntSize == 3 * WordSize
MaxWord == Pow(CellBase, WordSize) - 1

Ph(type, offset, vaddr, file_size, mem_size, x, w, tags) ==
    [type |-> type, offset |-> offset, vaddr |-> vaddr, file_size |-> file_size,
     mem_size |-> mem_size, x |-> x, w |-> w, tags |-> tags]
Tag(tag, val) == [tag |-> tag, val |-> val]
Rela(offset, type, sym, addend) ==
    [offset |-> offset, type |-> type, sym |-> sym, addend |-> addend]
Rel(offset, addend) == Rela(offset, R_AMD64_RELATIVE, 0, addend)

RelaTags(n) ==
    IF n = 0 THEN << >>
    ELSE <<Tag("Rela", 0), Tag("RelaSize", n * RelaEntSize), Tag("RelaEnt", RelaEntSize)>>

\* file size of the second LOAD segment
SegBFileSize == 2 * WordSize + 1
SegBVaddr(f1) == SegBPage * PageSize + (f1 % PageSize)

\* A program file: a read-only LOAD segment A of f1 file bytes and b1 bss
\* bytes at address 0, directly followed in the file by a writable LOAD
\* segment B with b2 bss bytes, a DYNAMIC header with the given tags and
\* relocation table, and a GNU_RELRO header over the file part of B.
ElfWith(f1, b1, b2, tags, relas, etype, magic, extra) ==
    [etype |-> etype, magic |-> magic, entry |-> 0,
     file_len |-> f1 + SegBFileSize + 1,
     phs |-> <<Ph("Load", 0, 0, f1, f1 + b1, TRUE, FALSE, << >>),
               Ph("Load", f1, SegBVaddr(f1), SegBFileSize, SegBFileSize + b2,
                  FALSE, TRUE, << >>),
               Ph("Dynamic", f1, SegBVaddr(f1), SegBFileSize, SegBFileSize,
                  FALSE, TRUE, tags),
               Ph("GnuRelro", f1, SegBVaddr(f1), SegBFileSize, SegBFileSize,
                  FALSE, FALSE, << >>)>> \o extra,
     relas |-> relas]

Elf(f1, b1, b2, relas) ==
    ElfWith(f1, b1, b2, RelaTags(Len(relas)), relas, "Executable", TRUE, << >>)

\* the relocation tables of the well-formed program files
RelaTables(f1) ==
    LET xb == align_up(SegBVaddr(f1), WordSize)
        xa == ((f1 - 1) \div WordSize) * WordSize
    IN {<< >>}
       \cup {<<Rel(xb, a)>> : a \in {1, MaxWord}}
       \cup {<<Rel(0, a)>> : a \in {1, MaxWord}}
       \cup {<<Rel(xb, a), Rel(xb + WordSize, 2)>> : a \in {1, MaxWord}}
       \cup {<<Rel(xa, a)>> : a \in {1, MaxWord}}

\* bss sizes of segment A: none, one byte, up to the end of the page, more than a page
BssSizes(f1) == {0, 1, PageSize - (f1 % PageSize), PageSize + 1}

WellFormedElfs ==
    UNION {{Elf(f1, b1, b2, relas) : b1 \in BssSizes(f1), relas \in RelaTables(f1)} :
              f1 \in {PageSize - 1, PageSize, PageSize + 1}, b2 \in {0, WordSize}}

TlsHeader == Ph("Tls", 0, 0, WordSize, WordSize, FALSE, FALSE, << >>)
BaseF1 == PageSize - 1
BaseRel == Rel(align_up(SegBVaddr(BaseF1), WordSize), 1)

\* program files with one structural defect each (and one with a single TLS segment)
OtherElfs ==
    {
      \* one TLS segment: accepted
      ElfWith(BaseF1, 1, 0, RelaTags(1), <<BaseRel>>, "Executable", TRUE, <<TlsHeader>>),
      \* not an executable
      ElfWith(BaseF1, 1, 0, RelaTags(1), <<BaseRel>>, "SharedObject", TRUE, << >>),
      \* no ELF magic
      ElfWith(BaseF1, 1, 0, RelaTags(1), <<BaseRel>>, "Executable", FALSE, << >>),
      \* a program header that reaches beyond the file
      ElfWith(BaseF1, 1, 0, RelaTags(1), <<BaseRel>>, "Executable", TRUE,
              <<Ph("Note", PageSize, 0, 4 * PageSize, 0, FALSE, FALSE, << >>)>>),
      \* two TLS segments
      ElfWith(BaseF1, 1, 0, RelaTags(1), <<BaseRel>>, "Executable", TRUE,
              <<TlsHeader, TlsHeader>>),
      \* two RELA entries
      ElfWith(BaseF1, 1, 0, <<Tag("Rela", 0)>> \o RelaTags(1), <<BaseRel>>,
              "Executable", TRUE, << >>),
      \* RELASZ without RELA
      ElfWith(BaseF1, 1, 0, <<Tag("RelaSize", RelaEntSize)>>, << >>,
              "Executable", TRUE, << >>),
      \* relocation destination not aligned to a word
      ElfWith(BaseF1, 1, 0, RelaTags(1), <<Rel(1, 1)>>, "Executable", TRUE, << >>),
      \* a relocation type other than R_AMD64_RELATIVE
      ElfWith(BaseF1, 1, 0, RelaTags(1), <<Rela(0, 1, 0, 1)>>, "Executable", TRUE, << >>),
      \* a relocation that names a symbol
      ElfWith(BaseF1, 1, 0, RelaTags(1), <<Rela(0, R_AMD64_RELATIVE, 1, 1)>>,
              "Executable", TRUE, << >>),
      \* a relocation outside every LOAD segment
      ElfWith(BaseF1, 1, 0, RelaTags(1), <<Rel(2 * PageSize, 1)>>, "Executable", TRUE, << >>)
    }

\* program files that name addresses of the kernel
KernelRangeElfs ==
    {
      \* a LOAD segment over the kernel heap
      ElfWith(BaseF1, 1, 0, RelaTags(1), <<BaseRel>>, "Executable", TRUE,
              <<Ph("Load", 0, KERNEL_HEAP_MEMORY.start, WordSize, WordSize, FALSE, TRUE, << >>)>>),
      \* the bss of the first LOAD segment reaches into the kernel stack
      Elf(BaseF1, KERNEL_STACK_MEMORY.start + 1 - BaseF1, 0, <<BaseRel>>),
      \* a GNU_RELRO header over the kernel stack
      ElfWith(BaseF1, 1, 0, RelaTags(1), <<BaseRel>>, "Executable", TRUE,
              <<Ph("GnuRelro", 0, KERNEL_STACK_MEMORY.start, PageSize, PageSize,
                   FALSE, FALSE, << >>)>>),
      \* a relocation whose destination is in the kernel heap
      ElfWith(BaseF1, 1, 0, RelaTags(1), <<Rel(KERNEL_HEAP_MEMORY.start, 1)>>,
              "Executable", TRUE, << >>)
    }

ElfFiles == WellFormedElfs \cup OtherElfs \cup KernelRangeElfs

\* the program files whose code makes other syscalls than ProgramExit and
\* ScreenCreate, which the code of every program makes
SyscallPrograms == {Elf(BaseF1, 1, 0, <<BaseRel>>)}

NoElf == [etype |-> "None", magic |-> FALSE, entry |-> 0, file_len |-> 0,
          phs |-> << >>, relas |-> << >>]

(* ---------------------------------------------------------------------- *)
(* uniquelock: UniqueLock and UniqueOnce; the guards of the kernel         *)
(* ---------------------------------------------------------------------- *)
\* a lock that lets every caller in
lock_unchecked(locked) == "Ok"
\* UniqueLock::lock: self.mutex.try_lock().ok_or(LockError(self.name))
UniqueLock_lock(locked) == IF locked THEN "LockError" ELSE "Ok"
\* UniqueLock::is_locked
is_locked(l) == l.locked
\* spin::Mutex::lock: spins until the lock is free, then takes it
spin_Mutex_lock(locked) == IF locked THEN "Spin" ELSE "Ok"

\* UniqueLock::new("test lock", val), with the number of live guards
UniqueLock(val) == [locked |-> FALSE, val |-> val, guards |-> 0]

\* UniqueOnce::new: not initialized, the data not written
Uninit == -1
UniqueOnce == [initialized |-> FALSE, data |-> Uninit]
\* a call_once that stores the value whatever the flag says
call_once_overwrite(o, val) ==
    [once |-> [initialized |-> TRUE, data |-> val],
     res |-> IF o.initialized THEN "AlreadyInit" ELSE "Ok"]
\* UniqueOnce::call_once: compare_exchange(false, true), then write the value
call_once(o, val) ==
    IF ~o.initialized
    THEN [once |-> [initialized |-> TRUE, data |-> val], res |-> "Ok"]
    ELSE [once |-> o, res |-> "AlreadyInit"]
\* UniqueOnce::get
get(o) ==
    IF o.initialized THEN [res |-> "Ok", val |-> o.data]
    ELSE [res |-> "NotInit", val |-> Uninit]

\* the guards of the shared state of the kernel (src/src)
Guards == {"program stack", "screen stack", "memory mapper", "kernel screen"}
\* TextWriter::lock_kernel_screen of src/src: KERNEL_TEXT_SCREEN.lock()
lock_kernel_screen(locked) == spin_Mutex_lock(locked)
\* TextWriter::lock_kernel_screen of src/kernel: KERNEL_TEXT_SCREEN.lock().ok()
kernel_lock_kernel_screen(locked) == UniqueLock_lock(locked)

\* what acquiring the guard does: PROGRAM_STACK and SCREEN_STACK are
\* UniqueLocks and MEMORY_MAPPER is a spin::Mutex; KERNEL_TEXT_SCREEN is a
\* spin::Mutex in src/src and a UniqueLock in src/kernel
Acquire(guard, tree, locked) ==
    IF guard \in {"program stack", "screen stack"} THEN UniqueLock_lock(locked)
    ELSE IF guard = "memory mapper" THEN spin_Mutex_lock(locked)
    ELSE IF tree = "src" THEN lock_kernel_screen(locked)
    ELSE kernel_lock_kernel_screen(locked)

\* the logger before the first log call, in the kernel of the given tree
Logger(tree) ==
    [tree |-> tree, held |-> FALSE, main |-> "idle", irq |-> "none",
     lines |-> 0, busy |-> 0, dropped |-> 0]

\* no call has been made on the library
NoOp ==
    [op |-> "none", res |-> "None", val |-> 0, n |-> 0,
     before |-> [op |-> "none", res |-> "None", val |-> 0]]

(* ---------------------------------------------------------------------- *)
(* The syscall boundary: kernel-common, the handler's helpers, std         *)
(* ---------------------------------------------------------------------- *)
\* enum Syscall
Syscalls ==
    {"InfoOsName", "InfoOsVersion", "MemAlloc", "MemDealloc", "MemAllocZeroed",
     "MemRealloc", "ProgramExit", "ProgramPanic", "ProgramLoad", "ProgramWaitForConfirm",
     "ScreenCreate", "ScreenSetChar", "ScreenSetPixel"}
\* the arms of _syscall_handler that are unimplemented!()
UnimplementedSyscalls == {"InfoOsVersion", "MemRealloc", "ProgramLoad"}

\* enum UserError, #[repr(u64)]: the discriminants
UserErrorCode(err) ==
    CASE err = "Unknown" -> 0
      [] err = "InvalidValue" -> 1
      [] err = "MissingScreen" -> 2
      [] err = "HasExistingScreen" -> 3
      [] err = "ScreenWrongType" -> 4
\* the UserError with a discriminant: what mem::transmute::<u64, UserError> gives
\* for a valid discriminant; any other word is not a UserError
UserErrorOf(code) ==
    CASE code = 0 -> "Unknown"
      [] code = 1 -> "InvalidValue"
      [] code = 2 -> "MissingScreen"
      [] code = 3 -> "HasExistingScreen"
      [] code = 4 -> "ScreenWrongType"
      [] OTHER -> "not a UserError"
UserErrors == {"Unknown", "InvalidValue", "MissingScreen", "HasExistingScreen", "ScreenWrongType"}

\* a syscall argument register with the two u32 halves (hi, lo)
pack_u32s(hi, lo) == hi * U32Range + lo
\* unpack_u32s: ((arg >> 32) & u32::MAX, arg & u32::MAX)
unpack_u32s(arg) == <<(arg \div U32Range) % U32Range, arg % U32Range>>

\* Layout::from_size_align: the alignment must be a power of two
from_size_align(size, align) ==
    [ok |-> align \in {Pow(2, e) : e \in 0 .. U32Range}, size |-> size, align |-> align]
\* unpack_layout: Layout::from_size_align(size, align).unwrap(), which panics
\* on a layout that is not ok
unpack_layout(arg) == from_size_align(unpack_u32s(arg)[2], unpack_u32s(arg)[1])

\* From<Result<u64, UserError>> for SyscallRetValue: the two words
SyscallRetValue(res, val) ==
    IF res = "Ok" THEN <<1, val>> ELSE <<0, UserErrorCode(res)>>
\* std's syscall after the instruction: ret0 == 0 is Err(transmute(ret1)),
\* anything else is Ok((ret0, ret1))
syscall_decode(ret0, ret1) ==
    IF ret0 = 0 THEN [res |-> UserErrorOf(ret1), val |-> <<0, 0>>]
    ELSE [res |-> "Ok", val |-> <<ret0, ret1>>]

\* LockedHeap::new(USER_HEAP_MEMORY.start(), USER_HEAP_MEMORY.size()): the
\* blocks handed out, as sets of addresses
LockedHeap(range) == [bottom |-> range.start, size |-> range.size, blocks |-> {}]
LockedHeap_empty == [bottom |-> 0, size |-> 0, blocks |-> {}]
\* the addresses of the heap that no block holds
HeapFree(heap) == (heap.bottom .. heap.bottom + heap.size - 1) \ UNION heap.blocks
\* where alloc can place the layout: aligned, inside the heap, on free bytes
HeapFits(heap, layout) ==
    {a \in heap.bottom .. heap.bottom + heap.size - 1 :
        /\ a % layout.align = 0
        /\ (a .. a + layout.size - 1) \subseteq HeapFree(heap)}
\* GlobalAlloc::alloc of the LockedHeap: the first fit, or the null pointer
heap_alloc(heap, layout) ==
    IF HeapFits(heap, layout) = {} THEN [heap |-> heap, ptr |-> 0]
    ELSE With({[heap |-> [heap EXCEPT !.blocks = @ \cup {a .. a + layout.size - 1}],
                ptr |-> a] :
               a \in {CHOOSE a \in HeapFits(heap, layout) :
                          \A b \in HeapFits(heap, layout) : a <= b}})
\* GlobalAlloc::dealloc of the LockedHeap: the block goes back to the heap
heap_dealloc(heap, ptr, layout) ==
    [heap EXCEPT !.blocks = @ \ {ptr .. ptr + layout.size - 1}]

\* TextScreen::index
TextScreen_index(x, y) == x + (y * TextWidth)
\* TextScreen::set_char: self.data[idx] is bounds-checked
TextScreen_set_char(x, y) ==
    IF TextScreen_index(x, y) < TextWidth * TextHeight THEN "Ok" ELSE "panic"

(* ---------------------------------------------------------------------- *)
(* State                                                                   *)
(* ---------------------------------------------------------------------- *)
VARIABLES
    memory_regions, \* the bootloader's memory map
    next,           \* BootInfoFrameAllocator.next
    handed_out,     \* the frames allocate_frame has returned so far, in order
    pt,             \* the live page table: page -> [frame, flags]
    tables,         \* the intermediate page tables: <<level, index>> -> flags
    mem,            \* physical memory
    local_map,      \* user_mapper.user_context.local_map during load_program
    locks,          \* the guards that are held
    PROGRAM_STACK,  \* Vec<UserProgram>
    SCREEN_STACK,   \* Vec<Screen>
    pc,             \* where the kernel is
    caller,         \* who called load_program: "main" or "kernel"
    elf,            \* the program file being loaded
    phys_addr,      \* Inner.phys_addr, the start of the file image
    ph_idx,         \* the program header the current loop of load_segments is at
    tls_template,   \* load_segments' tls_template: << >> or <<template>>
    result,         \* what the last load_program returned
    loads,          \* calls of load_program so far
    popped,         \* pop_program's local `program`: << >> or <<record>>
    user_rip,       \* the user instruction pointer at the last sysretq
    user_rsp,       \* the user stack pointer at the last sysretq
    sys_ret,        \* the result of the last syscall that returned
    sys,            \* the last syscall: its registers on entry and at sysretq
    flushed,        \* the page table as it was at the last tlb::flush_all
    waiting,        \* the keys handled since the wait began; has hlt returned since the last poll
    call,           \* the last call made on the UserMemoryMapper's interface
    ulock,          \* a UniqueLock<i32>, with the number of its live guards
    once,           \* a UniqueOnce<i32>
    klog,           \* KERNEL_TEXT_SCREEN and the log calls under way
    ret,            \* the last call made on the UniqueLock, the UniqueOnce or the logger
    mbr             \* a partition table, a sector buffer and what the last parse of it gave

\* the variables that only calls on an interface move, outside the kernel's run
libvars == <<ulock, once, klog, ret, waiting>>
apivars == <<call, libvars, mbr>>

vars == <<memory_regions, next, handed_out, pt, tables, mem, local_map, locks,
          PROGRAM_STACK, SCREEN_STACK, pc, caller, elf, phys_addr, ph_idx, tls_template,
          result, loads, popped, user_rip, user_rsp, sys_ret, sys, flushed, apivars>>

EmptyMap == [q \in {} |-> 0]

Machine ==
    [regions |-> memory_regions, next |-> next, out |-> handed_out, pt |-> pt,
     tables |-> tables, mem |-> mem, lmap |-> local_map]

\* the machine part of the next state
SetMachine(m) ==
    /\ memory_regions' = m.regions
    /\ next' = m.next
    /\ handed_out' = m.out
    /\ pt' = m.pt
    /\ tables' = m.tables
    /\ mem' = m.mem
    /\ local_map' = m.lmap

\* UserProgram::new
UserProgram(context) ==
    [context |-> context, stack |-> 0, has_screen |-> FALSE, confirm |-> FALSE,
     \* context.allocator, set by UserMemoryMapper::init
     allocator |-> LockedHeap(USER_HEAP_MEMORY)]

\* no syscall has been made
NoSyscall ==
    [id |-> "None", arg_base |-> 0, arg_len |-> 0, val |-> 0, rax |-> 0, rdx |-> 0, n |-> 0]
\* no key has been pressed
NoKeys == [keys |-> {}, woken |-> FALSE]

\* no partition table has been built and no buffer is there
NoMbr == [entries |-> << >>, buffer |-> << >>, written |-> << >>, synced |-> FALSE,
          parsed |-> [res |-> "None", entries |-> << >>, roundtrip |-> FALSE], n |-> 0]

\* no call has been made on the interface
NoCall ==
    [op |-> "none", user |-> FALSE, page |-> 0, frame |-> NoFrame, flags |-> {},
     res |-> "None", n |-> 0, was |-> << >>, cursor |-> 0,
     before |-> [op |-> "none", page |-> 0, res |-> "None"]]

\* the bootloader's memory maps: all usable, few usable frames, a reserved
\* frame past the frames a load takes, and a reserved frame right after the
\* first frame load_from_disk takes for the program file
MemoryMaps ==
    {FullMap, SmallMap(NumFrames \div 2), GapMap(NumFrames \div 2),
     GapMap(NumFrames \div 3 + 1)}

Init ==
    /\ memory_regions \in MemoryMaps
    /\ next = 0
    /\ handed_out = << >>
    /\ pt = EmptyMap
    /\ tables = EmptyMap
    /\ mem = [f \in Frames |-> [o \in Offsets |-> Garbage]]
    /\ local_map = EmptyMap
    /\ locks = {}
    /\ PROGRAM_STACK = << >>
    /\ SCREEN_STACK = << >>
    /\ pc = "boot"
    /\ caller = "main"
    /\ elf = NoElf
    /\ phys_addr = 0
    /\ ph_idx = 0
    /\ tls_template = << >>
    /\ result = "None"
    /\ loads = 0
    /\ popped = << >>
    /\ user_rip = 0
    /\ user_rsp = 0
    /\ sys_ret = "None"
    /\ sys = NoSyscall
    /\ flushed = EmptyMap
    /\ waiting = NoKeys
    /\ mbr = NoMbr
    /\ call = NoCall
    /\ ulock = UniqueLock(0)
    /\ once = UniqueOnce
    /\ klog = Logger("src")
    /\ ret = NoOp

(* ---------------------------------------------------------------------- *)
(* Boot                                                                    *)
(* ---------------------------------------------------------------------- *)
\* KernelMemoryMapper::init
KernelMemoryMapperInit(m) ==
    With({IF s.res # "Ok" THEN s ELSE alloc_writable_range(s.m, KERNEL_HEAP_MEMORY, FALSE) :
          s \in {alloc_writable_range(m, KERNEL_STACK_MEMORY, FALSE)}})

\* init_memory, called by kernel_main: a failure panics (unwrap)
InitMemory ==
    /\ UNCHANGED apivars
    /\ pc = "boot"
    /\ \E r \in {KernelMemoryMapperInit(Machine)} :
       /\ SetMachine(r.m)
       /\ pc' = IF r.res = "Ok" THEN "idle" ELSE "panic"
       \* KernelMemoryMapper::init ends with tlb::flush_all()
       /\ flushed' = IF r.res = "Ok" THEN r.m.pt ELSE flushed
    /\ UNCHANGED <<locks, PROGRAM_STACK, SCREEN_STACK, caller, elf, phys_addr, ph_idx,
                   tls_template, result, loads, popped, user_rip, user_rsp, sys_ret, sys>>

(* ---------------------------------------------------------------------- *)
(* load_program                                                            *)
(* ---------------------------------------------------------------------- *)
\* UserMemoryMapper::init, after MEMORY_MAPPER has been locked
UserMemoryMapperInit(m) ==
    With({IF s.res # "Ok" THEN s ELSE alloc_writable_range(s.m, USER_HEAP_MEMORY, TRUE) :
          s \in {alloc_writable_range([m EXCEPT !.lmap = EmptyMap], USER_STACK_MEMORY, TRUE)}})

\* load_program leaves with an error or a panic after the machine became m.
\* A panic halts the kernel where it is.  An error drops the UserMemoryMapper
\* (its guard and its MemoryContext); kernel_main unwraps the result.
LoadFails(m, res, error, who) ==
    IF res = "Panic"
    THEN /\ SetMachine(m)
         /\ pc' = "panic"
         /\ UNCHANGED <<locks, result>>
    ELSE /\ SetMachine([m EXCEPT !.lmap = EmptyMap])
         /\ locks' = locks \ {"memory mapper"}
         /\ result' = error
         /\ pc' = IF who = "main" THEN "panic" ELSE "user"

\* load_program up to and including UserMemoryMapper::init.  kernel_main calls
\* it once at boot; the kernel may call it again while a program is running.
LoadProgram ==
    /\ UNCHANGED apivars
    /\ pc \in {"idle", "user"}
    /\ loads < MaxLoads
    /\ "memory mapper" \notin locks
    /\ loads' = loads + 1
    /\ caller' = IF pc = "idle" THEN "main" ELSE "kernel"
    /\ \E r \in {UserMemoryMapperInit(Machine)} :
       IF r.res = "Ok"
       THEN /\ SetMachine(r.m)
            /\ locks' = locks \cup {"memory mapper"}
            /\ result' = "None"
            /\ pc' = "ld_read"
       ELSE LoadFails(r.m, r.res, "MemoryMappingFailed",
                      IF pc = "idle" THEN "main" ELSE "kernel")
    /\ UNCHANGED <<elf, PROGRAM_STACK, SCREEN_STACK, phys_addr, ph_idx, tls_template, popped,
                   user_rip, user_rsp, sys_ret, sys, flushed>>

\* load_from_disk: the file found on the disk is copied to fresh frames, then
\* Loader::new
LoadFromDisk(file) ==
    /\ UNCHANGED apivars
    /\ pc = "ld_read"
    /\ elf' = file
    /\ \E r \in {ReadFile(Machine, file)}, n \in {LoaderNew(file)} :
       IF r.res # "Ok"
       THEN LoadFails(r.m, r.res, "ElfError", caller) /\ UNCHANGED <<phys_addr, ph_idx>>
       ELSE IF n # "Ok"
       THEN LoadFails(r.m, n, "ElfError", caller) /\ UNCHANGED <<phys_addr, ph_idx>>
       ELSE /\ SetMachine(r.m)
            /\ phys_addr' = r.start_addr
            /\ ph_idx' = 1
            /\ pc' = "ld_segments"
            /\ UNCHANGED <<locks, result>>
    /\ tls_template' = << >>
    /\ UNCHANGED <<PROGRAM_STACK, SCREEN_STACK, caller, loads, popped,
                   user_rip, user_rsp, sys_ret, sys, flushed>>

\* a loop of load_segments that ends after its first program header
FirstHeaderOnly(phase_after) == pc' = phase_after /\ ph_idx' = 1
\* the loop counter of one loop of load_segments moves on; after the last
\* header the next loop starts
NextHeader(phase_after) ==
    IF ph_idx = Len(elf.phs)
    THEN pc' = phase_after /\ ph_idx' = 1
    ELSE pc' = pc /\ ph_idx' = ph_idx + 1

\* Inner::handle_tls_segment
handle_tls_segment(segment) ==
    [start_addr |-> segment.vaddr + virtual_address_offset,
     mem_size |-> segment.mem_size, file_size |-> segment.file_size]

\* Loader::load_segments, first loop: one program header
LoadSegment ==
    /\ UNCHANGED apivars
    /\ pc = "ld_segments"
    /\ LET ph == elf.phs[ph_idx] IN
       IF ph.type = "Load"
       THEN \E r \in {handle_load_segment(Machine, ph, phys_addr)} :
            /\ tls_template' = tls_template
            /\ IF r.res = "Ok"
               THEN SetMachine(r.m) /\ NextHeader("ld_dynamic") /\ UNCHANGED <<locks, result>>
               ELSE LoadFails(r.m, r.res, "ElfError", caller) /\ ph_idx' = ph_idx
       ELSE IF ph.type = "Tls"
       THEN IF tls_template = << >>
            THEN /\ tls_template' = <<handle_tls_segment(ph)>>
                 /\ SetMachine(Machine)
                 /\ NextHeader("ld_dynamic")
                 /\ UNCHANGED <<locks, result>>
            ELSE /\ tls_template' = tls_template
                 /\ LoadFails(Machine, "multiple TLS segments not supported", "ElfError", caller)
                 /\ ph_idx' = ph_idx
       ELSE /\ tls_template' = tls_template
            /\ SetMachine(Machine)
            /\ NextHeader("ld_dynamic")
            /\ UNCHANGED <<locks, result>>
    /\ UNCHANGED <<PROGRAM_STACK, SCREEN_STACK, caller, elf, phys_addr, loads, popped,
                   user_rip, user_rsp, sys_ret, sys, flushed>>

\* Loader::load_segments, second loop: one program header
LoadDynamic ==
    /\ UNCHANGED apivars
    /\ pc = "ld_dynamic"
    /\ \E r \in {IF elf.phs[ph_idx].type = "Dynamic"
                 THEN handle_dynamic_segment(Machine, elf.phs[ph_idx], elf)
                 ELSE Done(Machine)} :
          IF r.res = "Ok"
          THEN SetMachine(r.m) /\ NextHeader("ld_relro") /\ UNCHANGED <<locks, result>>
          ELSE LoadFails(r.m, r.res, "ElfError", caller) /\ ph_idx' = ph_idx
    /\ UNCHANGED <<PROGRAM_STACK, SCREEN_STACK, caller, elf, phys_addr, tls_template,
                   loads, popped, user_rip, user_rsp, sys_ret, sys, flushed>>

\* Loader::load_segments, third loop: one program header
LoadRelro ==
    /\ UNCHANGED apivars
    /\ pc = "ld_relro"
    /\ \E r \in {IF elf.phs[ph_idx].type = "GnuRelro"
                 THEN handle_relro_segment(Machine, elf.phs[ph_idx])
                 ELSE Done(Machine)} :
          IF r.res = "Ok"
          THEN SetMachine(r.m) /\ NextHeader("ld_cleanup") /\ UNCHANGED <<locks, result>>
          ELSE LoadFails(r.m, r.res, "ElfError", caller) /\ ph_idx' = ph_idx
    /\ UNCHANGED <<PROGRAM_STACK, SCREEN_STACK, caller, elf, phys_addr, tls_template,
                   loads, popped, user_rip, user_rsp, sys_ret, sys, flushed>>

\* Loader::load_segments, the end: remove_copied_flags(..).unwrap()
LoadCleanup ==
    /\ UNCHANGED apivars
    /\ pc = "ld_cleanup"
    /\ \E r \in {remove_copied_flags(Machine, LoadSegments(elf))} :
       IF r.res = "Ok"
       THEN SetMachine(r.m) /\ pc' = "ld_finish" /\ UNCHANGED <<locks, result>>
       ELSE LoadFails(r.m, "Panic", "ElfError", caller)
    /\ UNCHANGED <<PROGRAM_STACK, SCREEN_STACK, caller, elf, phys_addr, ph_idx,
                   tls_template, loads, popped, user_rip, user_rsp, sys_ret, sys, flushed>>

\* Loader::entry_point
entry_point(file) == file.entry + virtual_address_offset

\* load_program's end: finish_load, push_program, Ok(user_entry)
LoadFinish ==
    /\ UNCHANGED apivars
    /\ pc = "ld_finish"
    /\ locks' = locks \ {"memory mapper"}
    \* finish_load: tlb::flush_all()
    /\ flushed' = pt
    /\ IF "program stack" \in locks
       THEN pc' = "panic" /\ UNCHANGED <<PROGRAM_STACK, result, local_map>>
       ELSE /\ PROGRAM_STACK' = Append(PROGRAM_STACK, UserProgram(local_map))
            /\ local_map' = EmptyMap
            /\ result' = "Ok"
            /\ pc' = "loaded"
    /\ UNCHANGED <<memory_regions, next, handed_out, pt, tables, mem, SCREEN_STACK, caller, elf,
                   phys_addr, ph_idx, tls_template, loads, popped, user_rip, user_rsp,
                   sys_ret, sys>>

\* enter_userspace(entry_point)
EnterUserspace ==
    /\ UNCHANGED apivars
    /\ pc = "loaded"
    /\ pc' = "user"
    /\ user_rip' = entry_point(elf)
    /\ user_rsp' = stack_start(USER_STACK_MEMORY)
    /\ UNCHANGED <<memory_regions, next, handed_out, pt, tables, mem, local_map, locks, PROGRAM_STACK,
                   SCREEN_STACK, caller, elf, phys_addr, ph_idx, tls_template, result,
                   loads, popped, sys_ret, sys, flushed>>

(* ---------------------------------------------------------------------- *)
(* Syscalls of the running program                                         *)
(* ---------------------------------------------------------------------- *)
\* the keys of a BTreeMap in iteration order
RECURSIVE SortedKeys(_)
SortedKeys(S) ==
    IF S = {} THEN << >>
    ELSE LET k == CHOOSE x \in S : \A y \in S : x <= y IN <<k>> \o SortedKeys(S \ {k})

\* the loop of UserMemoryMapper::restore_context
RECURSIVE RestorePages(_, _, _)
RestorePages(m, pages, context) ==
    IF pages = << >> THEN Done(m)
    ELSE With({IF r.res # "Ok" THEN r ELSE RestorePages(r.m, Tail(pages), context) :
               r \in {KernelMapPage(m, Head(pages), context[Head(pages)].frame,
                                    context[Head(pages)].flags)}})

\* UserMemoryMapper::restore_context
restore_context(m, context) == RestorePages(m, SortedKeys(DOMAIN context), context)

Last(seq) == seq[Len(seq)]
Front(seq) == SubSeq(seq, 1, Len(seq) - 1)

\* Screen::Image(ImageScreen::new(Color::BLACK)) and Screen::Text(TextScreen::new(..))
ImageScreen == [kind |-> "Image", data |-> << >>]
TextScreen == [kind |-> "Text", data |-> [i \in 0 .. (TextWidth * TextHeight - 1) |-> <<0, 0>>]]

\* a byte of a syscall argument holds a value below ByteRange
ByteRange == 2
\* arg_len.to_ne_bytes()[i]
to_ne_bytes(arg, i) == (arg \div Pow(ByteRange, i)) % ByteRange

\* UserError::pack(result): the u64 that _syscall_handler returns, in rax
UserError_pack(res, val) == SyscallRetValue(res, val)[1]
\* rdx at sysretq: _syscall_handler returns a u64, so the register holds what
\* the handler happened to leave in it
ScratchRdx(arg_len) == {0, arg_len}

\* the calls of the kernel's own interfaces, which no syscall makes
libcalls == <<call, ulock, once, klog, ret>>

\* the handler is entered: the registers of the syscall instruction
Entered(id, arg_base, arg_len) ==
    [sys EXCEPT !.id = id, !.arg_base = arg_base, !.arg_len = arg_len, !.n = @ + 1]
\* UserError::pack(result) is returned and the program goes on after sysretq
Returns(id, arg_base, arg_len, res, val) ==
    /\ sys_ret' = res
    /\ \E rdx \in ScratchRdx(arg_len) :
          sys' = [id |-> id, arg_base |-> arg_base, arg_len |-> arg_len, val |-> val,
                  rax |-> UserError_pack(res, val), rdx |-> rdx, n |-> sys.n + 1]
\* the handler panics: the kernel's panic handler logs and halts
Panics(id, arg_base, arg_len) ==
    /\ pc' = "panic"
    /\ sys' = Entered(id, arg_base, arg_len)
    /\ UNCHANGED sys_ret

\* where a kernel would be that returned to the caller after the last exit
ReturnsToUser == "user"
\* current_program_exit with no record left: log, then hlt_loop(), which never returns
AfterLastExit == "halted"

\* current_program_exit, with pop_program
current_program_exit ==
    /\ IF "program stack" \in locks \/ PROGRAM_STACK = << >>
       THEN \* PROGRAM_STACK.lock().unwrap() or pop().unwrap() panics
            /\ pc' = "panic"
            /\ UNCHANGED <<memory_regions, next, handed_out, pt, tables, mem, local_map, locks,
                           PROGRAM_STACK, SCREEN_STACK, popped, user_rsp>>
       ELSE LET program == Last(PROGRAM_STACK)
                rest == Front(PROGRAM_STACK)
            IN
            /\ popped' = <<program>>
            /\ PROGRAM_STACK' = rest
            /\ IF program.has_screen /\ "screen stack" \in locks
               THEN /\ pc' = "panic"
                    /\ UNCHANGED <<memory_regions, next, handed_out, pt, tables, mem, local_map, locks,
                                   SCREEN_STACK, user_rsp>>
               ELSE /\ SCREEN_STACK' = IF program.has_screen /\ SCREEN_STACK # << >>
                                       THEN Front(SCREEN_STACK) ELSE SCREEN_STACK
                    /\ locks' = locks \cup {"program stack"}
                    /\ IF rest # << >>
                       THEN \E r \in {restore_context(Machine, Last(rest).context)} :
                            /\ SetMachine(r.m)
                            /\ IF r.res = "Ok"
                               THEN pc' = "user" /\ user_rsp' = Last(rest).stack
                               ELSE pc' = "panic" /\ user_rsp' = user_rsp
                       ELSE /\ pc' = AfterLastExit
                            /\ UNCHANGED <<memory_regions, next, handed_out, pt, tables, mem, local_map,
                                           user_rsp>>
    /\ sys_ret' = "None"

\* Syscall::ProgramExit
ProgramExit ==
    /\ UNCHANGED apivars
    /\ pc = "user"
    /\ sys' = Entered("ProgramExit", 0, 0)
    /\ current_program_exit
    /\ UNCHANGED <<caller, elf, phys_addr, ph_idx, tls_template, result, loads, user_rip,
                   flushed>>

\* Syscall::ProgramPanic: the message must be UTF-8 (from_utf8(info).unwrap()),
\* then log, show_kernel_screen and current_program_exit
ProgramPanic(info) ==
    /\ UNCHANGED apivars
    /\ pc = "user"
    /\ elf \in SyscallPrograms
    /\ sys.n < MaxSyscalls
    /\ sys' = Entered("ProgramPanic", 0, 0)
    /\ IF info = "utf8"
       THEN current_program_exit
       ELSE /\ pc' = "panic"
            /\ UNCHANGED <<memory_regions, next, handed_out, pt, tables, mem, local_map, locks,
                           PROGRAM_STACK, SCREEN_STACK, popped, user_rsp, sys_ret>>
    /\ UNCHANGED <<caller, elf, phys_addr, ph_idx, tls_template, result, loads, user_rip,
                   flushed>>

\* what no syscall but an exit changes
loadvars ==
    <<memory_regions, next, handed_out, pt, tables, local_map, caller, elf, phys_addr, ph_idx,
      tls_template, result, loads, popped, user_rip, user_rsp, flushed, mbr>>

\* Syscall::InfoOsName: a log line, Ok(0)
InfoOsName ==
    /\ pc = "user"
    /\ elf \in SyscallPrograms
    /\ sys.n < MaxSyscalls
    /\ Returns("InfoOsName", 0, 0, "Ok", 0)
    /\ UNCHANGED <<pc, mem, locks, PROGRAM_STACK, SCREEN_STACK, loadvars, waiting, libcalls>>

\* Syscall::InfoOsVersion, MemRealloc, ProgramLoad: unimplemented!()
Unimplemented(id) ==
    /\ pc = "user"
    /\ elf \in SyscallPrograms
    /\ sys.n < MaxSyscalls
    /\ Panics(id, 0, 0)
    /\ UNCHANGED <<mem, locks, PROGRAM_STACK, SCREEN_STACK, loadvars, waiting, libcalls>>

\* the closure of MemAlloc, MemDealloc and MemAllocZeroed on the allocator
MemClosure(id, heap, arg_base, arg_len) ==
    IF ~unpack_layout(arg_len).ok THEN [res |-> "panic", heap |-> heap, val |-> 0]
    ELSE IF id = "MemDealloc"
    THEN [res |-> "Ok", heap |-> heap_dealloc(heap, arg_base, unpack_layout(arg_len)),
          val |-> 0]
    ELSE With({[res |-> "Ok", heap |-> r.heap, val |-> r.ptr] :
               r \in {heap_alloc(heap, unpack_layout(arg_len))}})

\* a with_current_program_allocator that hands out the allocator of the first
\* program of the stack
with_first_program_allocator(stack, locked, id, arg_base, arg_len) ==
    IF locked \/ stack = << >> THEN [res |-> "panic", stack |-> stack, val |-> 0]
    ELSE With({[res |-> r.res, stack |-> [stack EXCEPT ![1].allocator = r.heap],
                val |-> r.val] :
               r \in {MemClosure(id, stack[1].allocator, arg_base, arg_len)}})
\* with_current_program_allocator: PROGRAM_STACK.lock().unwrap(),
\* last_mut().unwrap(), then the closure on current_program.context.allocator
with_current_program_allocator(stack, locked, id, arg_base, arg_len) ==
    IF locked \/ stack = << >> THEN [res |-> "panic", stack |-> stack, val |-> 0]
    ELSE With({[res |-> r.res, stack |-> [stack EXCEPT ![Len(stack)].allocator = r.heap],
                val |-> r.val] :
               r \in {MemClosure(id, Last(stack).allocator, arg_base, arg_len)}})

\* alloc_zeroed writes zeroes through the addresses of the block
ZeroBlock(ptr, layout) ==
    [f \in Frames |-> [o \in Offsets |->
        IF \E a \in ptr .. ptr + layout.size - 1 :
              /\ containing_address(a) \in DOMAIN pt
              /\ pt[containing_address(a)].frame = f
              /\ a % PageSize = o
        THEN 0 ELSE mem[f][o]]]

\* Syscall::MemAlloc, MemDealloc and MemAllocZeroed
MemSyscall(id, arg_base, arg_len) ==
    /\ pc = "user"
    /\ elf \in SyscallPrograms
    /\ sys.n < MaxSyscalls
    /\ \E r \in {with_current_program_allocator(PROGRAM_STACK, "program stack" \in locks,
                                                id, arg_base, arg_len)} :
          IF r.res = "panic"
          THEN Panics(id, arg_base, arg_len) /\ UNCHANGED <<PROGRAM_STACK, mem>>
          ELSE /\ PROGRAM_STACK' = r.stack
               /\ mem' = IF id = "MemAllocZeroed" /\ r.val # 0
                         THEN ZeroBlock(r.val, unpack_layout(arg_len)) ELSE mem
               /\ Returns(id, arg_base, arg_len, "Ok", r.val)
               /\ UNCHANGED pc
    /\ UNCHANGED <<locks, SCREEN_STACK, loadvars, waiting, libcalls>>

\* unpack_bool
unpack_bool(arg) == IF arg = 0 THEN "false" ELSE IF arg = 1 THEN "true" ELSE "InvalidValue"

\* a push_screen that forgets to set has_screen
push_screen_unflagged(programs, screens, held, screen) ==
    IF "program stack" \in held \/ programs = << >>
    THEN [res |-> "panic", programs |-> programs, screens |-> screens]
    ELSE IF Last(programs).has_screen
    THEN [res |-> "HasExistingScreen", programs |-> programs, screens |-> screens]
    ELSE IF "screen stack" \in held
    THEN [res |-> "panic", programs |-> programs, screens |-> screens]
    ELSE [res |-> "Ok", programs |-> programs, screens |-> Append(screens, screen)]

\* push_screen, as it leaves the stacks and what it returns; set_screen_active
\* locks SCREEN_STACK after has_screen has been set
push_screen(programs, screens, held, screen) ==
    IF "program stack" \in held \/ programs = << >>
    THEN [res |-> "panic", programs |-> programs, screens |-> screens]
    ELSE IF Last(programs).has_screen
    THEN [res |-> "HasExistingScreen", programs |-> programs, screens |-> screens]
    ELSE IF "screen stack" \in held
    THEN [res |-> "panic",
          programs |-> [programs EXCEPT ![Len(programs)].has_screen = TRUE],
          screens |-> screens]
    ELSE [res |-> "Ok",
          programs |-> [programs EXCEPT ![Len(programs)].has_screen = TRUE],
          screens |-> Append(screens, screen)]

\* create_screen: make_user_text_palette is unimplemented!()
create_screen(programs, screens, held, image) ==
    IF ~image THEN [res |-> "panic", programs |-> programs, screens |-> screens]
    ELSE push_screen(programs, screens, held, ImageScreen)

\* Syscall::ScreenCreate: unpack_bool, create_screen and push_screen
ScreenCreate(arg_base) ==
    /\ pc = "user"
    /\ sys.n < MaxSyscalls
    /\ IF unpack_bool(arg_base) = "InvalidValue"
       THEN /\ Returns("ScreenCreate", arg_base, 0, "InvalidValue", 0)
            /\ UNCHANGED <<pc, locks, PROGRAM_STACK, SCREEN_STACK>>
       ELSE \E r \in {create_screen(PROGRAM_STACK, SCREEN_STACK, locks,
                                    unpack_bool(arg_base) = "true")} :
            /\ PROGRAM_STACK' = r.programs
            /\ SCREEN_STACK' = r.screens
            /\ IF r.res = "panic"
               THEN /\ Panics("ScreenCreate", arg_base, 0)
                    /\ locks' = IF r.programs # PROGRAM_STACK
                                THEN locks \cup {"program stack"} ELSE locks
               ELSE /\ Returns("ScreenCreate", arg_base, 0, r.res, 0)
                    /\ UNCHANGED <<pc, locks>>
    /\ UNCHANGED <<mem, loadvars, waiting, libcalls>>

\* set_screen_char: the stacks are read, the character written to a text screen
set_screen_char(programs, screens, held, x, y, ch, color) ==
    IF "program stack" \in held \/ programs = << >> THEN [res |-> "panic", screens |-> screens]
    ELSE IF ~Last(programs).has_screen THEN [res |-> "MissingScreen", screens |-> screens]
    ELSE IF "screen stack" \in held \/ screens = << >> THEN [res |-> "panic", screens |-> screens]
    ELSE IF Last(screens).kind = "Image" THEN [res |-> "ScreenWrongType", screens |-> screens]
    ELSE IF TextScreen_set_char(x, y) = "panic" THEN [res |-> "panic", screens |-> screens]
    ELSE [res |-> "Ok",
          screens |-> [screens EXCEPT ![Len(screens)].data[TextScreen_index(x, y)] =
                                          <<ch, color>>]]

\* set_screen_pixel: the stacks are read, the pixel set on an image screen
set_screen_pixel(programs, screens, held, x, y) ==
    IF "program stack" \in held \/ programs = << >> THEN [res |-> "panic", screens |-> screens]
    ELSE IF ~Last(programs).has_screen THEN [res |-> "MissingScreen", screens |-> screens]
    ELSE IF "screen stack" \in held \/ screens = << >> THEN [res |-> "panic", screens |-> screens]
    ELSE IF Last(screens).kind = "Text" THEN [res |-> "ScreenWrongType", screens |-> screens]
    ELSE [res |-> "Ok", screens |-> screens]

\* Syscall::ScreenSetChar
ScreenSetChar(arg_base, arg_len) ==
    /\ pc = "user"
    /\ elf \in SyscallPrograms
    /\ sys.n < MaxSyscalls
    /\ \E r \in {set_screen_char(PROGRAM_STACK, SCREEN_STACK, locks,
                                 unpack_u32s(arg_base)[1], unpack_u32s(arg_base)[2],
                                 to_ne_bytes(arg_len, 0), to_ne_bytes(arg_len, 1))} :
          /\ SCREEN_STACK' = r.screens
          /\ IF r.res = "panic"
             THEN Panics("ScreenSetChar", arg_base, arg_len)
             ELSE Returns("ScreenSetChar", arg_base, arg_len, r.res, 0) /\ UNCHANGED pc
    /\ UNCHANGED <<mem, locks, PROGRAM_STACK, loadvars, waiting, libcalls>>

\* Syscall::ScreenSetPixel
ScreenSetPixel(arg_base, arg_len) ==
    /\ pc = "user"
    /\ elf \in SyscallPrograms
    /\ sys.n < MaxSyscalls
    /\ \E r \in {set_screen_pixel(PROGRAM_STACK, SCREEN_STACK, locks,
                                  unpack_u32s(arg_base)[1], unpack_u32s(arg_base)[2])} :
          /\ SCREEN_STACK' = r.screens
          /\ IF r.res = "panic"
             THEN Panics("ScreenSetPixel", arg_base, arg_len)
             ELSE Returns("ScreenSetPixel", arg_base, arg_len, r.res, 0) /\ UNCHANGED pc
    /\ UNCHANGED <<mem, locks, PROGRAM_STACK, loadvars, waiting, libcalls>>

\* Syscall::ProgramWaitForConfirm: current_program_wait up to the first hlt
WaitForConfirm ==
    /\ pc = "user"
    /\ elf \in SyscallPrograms
    /\ sys.n < MaxSyscalls
    /\ sys' = Entered("ProgramWaitForConfirm", 0, 0)
    /\ IF "program stack" \in locks \/ PROGRAM_STACK = << >>
       THEN pc' = "panic" /\ UNCHANGED <<PROGRAM_STACK, waiting>>
       ELSE /\ PROGRAM_STACK' = [PROGRAM_STACK EXCEPT ![Len(PROGRAM_STACK)].confirm = FALSE]
            /\ waiting' = NoKeys
            /\ pc' = "wait"
    /\ UNCHANGED <<mem, locks, SCREEN_STACK, sys_ret, loadvars, libcalls>>

\* current_program_wait after hlt has returned: the flag is read if the guard
\* is free, and the syscall returns Ok(0) once it is set
WaitPoll ==
    /\ pc = "wait"
    /\ waiting.woken
    /\ waiting' = [waiting EXCEPT !.woken = FALSE]
    /\ IF "program stack" \notin locks /\ Last(PROGRAM_STACK).confirm
       THEN /\ pc' = "user"
            /\ sys_ret' = "Ok"
            /\ \E rdx \in ScratchRdx(0) :
                  sys' = [sys EXCEPT !.id = "ProgramWaitForConfirm", !.val = 0,
                                     !.rax = UserError_pack("Ok", 0), !.rdx = rdx]
       ELSE UNCHANGED <<pc, sys_ret, sys>>
    /\ UNCHANGED <<mem, locks, PROGRAM_STACK, SCREEN_STACK, loadvars, libcalls>>

\* current_program_notify without the try-lock: the flag is set whoever holds
\* the guard
current_program_notify_unguarded(programs, held) ==
    IF programs # << >>
    THEN [res |-> TRUE, programs |-> [programs EXCEPT ![Len(programs)].confirm = TRUE]]
    ELSE [res |-> FALSE, programs |-> programs]

\* current_program_notify: the flag of the top program is set if the guard is
\* free and a program is there
current_program_notify(programs, held) ==
    IF "program stack" \notin held /\ programs # << >>
    THEN [res |-> TRUE, programs |-> [programs EXCEPT ![Len(programs)].confirm = TRUE]]
    ELSE [res |-> FALSE, programs |-> programs]

(* ---------------------------------------------------------------------- *)
(* Specification                                                           *)
(* ---------------------------------------------------------------------- *)
\* the kernel's own variables, which calls on the interface leave alone
kernelvars ==
    <<locks, PROGRAM_STACK, SCREEN_STACK, pc, caller, elf, phys_addr, ph_idx, tls_template,
      result, loads, popped, user_rip, user_rsp, sys_ret, sys, flushed, mbr>>

\* the mappers' and the kernel's own variables, which these calls leave alone
machinevars == <<memory_regions, next, handed_out, pt, tables, mem, local_map, call>>

\* what a call leaves in `ret`
Returned(op, res, val) ==
    [op |-> op, res |-> res, val |-> val, n |-> ret.n + 1,
     before |-> [op |-> ret.op, res |-> ret.res, val |-> ret.val]]

\* the guard that a log call asks for, in the kernel of either tree
LogLock(l) ==
    IF l.tree = "src" THEN lock_kernel_screen(l.held) ELSE kernel_lock_kernel_screen(l.held)

\* keyboard_interrupt_handler with a key to log: log::trace!, in the handler.
\* With the guard free the line is written and the handler returns.  With the
\* guard held the spin::Mutex of src/src spins, and the main path that holds
\* the guard never runs again; the UniqueLock of src/kernel gives None, log
\* returns and the line is lost.
KeyboardInterrupt(key) ==
    /\ pc \in {"lib", "wait"}
    /\ ret.n < MaxOps
    /\ klog.irq = "none"
    /\ klog' = IF LogLock(klog) = "Ok"
               THEN [klog EXCEPT !.lines = @ + 1]
               ELSE IF LogLock(klog) = "Spin"
               THEN [klog EXCEPT !.irq = "spinning", !.busy = @ + 1]
               ELSE [klog EXCEPT !.busy = @ + 1, !.dropped = @ + 1]
    /\ ret' = Returned("interrupt log", LogLock(klog), klog.lines)
    \* hlt returns after the handler
    /\ waiting' = [keys |-> waiting.keys \cup {key}, woken |-> TRUE]
    /\ UNCHANGED <<kernelvars, machinevars, ulock, once>>

\* the argument registers the programs pass
\* std passes the pointer to dealloc and 0 to alloc and alloc_zeroed
PointerArgs(id) == IF id = "MemDealloc" THEN {USER_HEAP_MEMORY.start} ELSE {0}
LayoutArgs == {pack_u32s(1, 1), pack_u32s(2, 2), pack_u32s(3, 1)}
PositionArgs == {pack_u32s(1, 1)}
DataArgs == {3}
\* the keys the user presses
Keys == {"space", "a"}

Next ==
    \/ InitMemory
    \/ LoadProgram
    \/ \E file \in ElfFiles : LoadFromDisk(file)
    \/ LoadSegment
    \/ LoadDynamic
    \/ LoadRelro
    \/ LoadCleanup
    \/ LoadFinish
    \/ EnterUserspace
    \/ ProgramExit
    \/ \E arg_base \in 0 .. 2 : ScreenCreate(arg_base)
    \/ \E info \in {"utf8", "not utf8"} : ProgramPanic(info)
    \/ InfoOsName
    \/ \E id \in UnimplementedSyscalls : Unimplemented(id)
    \/ \E id \in {"MemAlloc", "MemDealloc", "MemAllocZeroed"}, arg_len \in LayoutArgs :
          \E arg_base \in PointerArgs(id) : MemSyscall(id, arg_base, arg_len)
    \/ \E arg_base \in PositionArgs, arg_len \in DataArgs : ScreenSetChar(arg_base, arg_len)
    \/ \E arg_base \in PositionArgs, arg_len \in DataArgs : ScreenSetPixel(arg_base, arg_len)
    \/ WaitForConfirm
    \/ WaitPoll
    \/ \E key \in Keys : KeyboardInterrupt(key)

Spec == Init /\ [][Next]_vars

(* ---------------------------------------------------------------------- *)
(* What the processor sees                                                 *)
(* ---------------------------------------------------------------------- *)
\* Translate::translate_addr succeeds for the virtual address
Translatable(addr) == containing_address(addr) \in DOMAIN pt
\* the cell a read through the virtual address returns
ReadByte(addr) == mem[pt[containing_address(addr)].frame][addr % PageSize]
\* the little-endian word a read through the virtual address returns
RECURSIVE WordFrom(_, _)
WordFrom(addr, i) ==
    IF i = WordSize THEN 0
    ELSE ReadByte(addr + i) * Pow(CellBase, i) + WordFrom(addr, i + 1)
ReadWord(addr) == WordFrom(addr, 0)
\* the cell of the file image that holds file position i
ImageByte(i) == mem[containing_address(phys_addr + i)][(phys_addr + i) % PageSize]
\* the frames the file image occupies
FileFrames ==
    containing_address(phys_addr) .. containing_address(phys_addr + elf.file_len - 1)
\* the frames the allocator can still hand out
FreeFrames == Len(usable_frames(memory_regions)) - next

\* positions of load_program after the first, second and third loop of load_segments
AfterSegments == {"ld_dynamic", "ld_relro", "ld_cleanup", "ld_finish", "loaded"}
AfterRelocations == {"ld_relro", "ld_cleanup", "ld_finish", "loaded"}
AfterRelro == {"ld_cleanup", "ld_finish", "loaded"}
AfterLoadSegments == {"ld_finish", "loaded"}
\* the first loop of load_segments has handled program header i
SegmentLoaded(i) == (pc = "ld_segments" /\ ph_idx > i) \/ pc \in AfterSegments
\* the LOAD program headers of the file being loaded
LoadHeaders == {i \in 1 .. Len(elf.phs) : elf.phs[i].type = "Load"}
RelroHeaders == {i \in 1 .. Len(elf.phs) : elf.phs[i].type = "GnuRelro"}
\* the pages of the virtual range [vaddr, vaddr + size) of a program header
RangePages(ph, size) ==
    {containing_address(virtual_address_offset + ph.vaddr + o) : o \in 0 .. (size - 1)}
\* the virtual addresses that the destination words of the relocations cover
RelocatedCells ==
    {virtual_address_offset + elf.relas[k].offset + i :
        k \in 1 .. Len(elf.relas), i \in 0 .. (WordSize - 1)}

(* ---------------------------------------------------------------------- *)
(* C1                                                                      *)
(* ---------------------------------------------------------------------- *)
\* C1: once current_program_exit has popped a program, no page that the
\* program added to the page tables (the pages of its MemoryContext) is
\* translatable any more.
C1_ExitRemovesPages ==
    popped # << >> => \A page \in DOMAIN popped[1].context : page \notin DOMAIN pt

C3_LastExitHalts ==
    [][/\ (PROGRAM_STACK # << >> /\ PROGRAM_STACK' = << >>) => pc' = "halted"
       /\ pc = "halted" => pc' = "halted"
       /\ (popped' # << >> /\ PROGRAM_STACK' = << >>) => pc' # "user"]_vars

C3_Witness == pc = "halted" /\ popped # << >> /\ PROGRAM_STACK = << >>

(* ---------------------------------------------------------------------- *)
(* C4                                                                      *)
(* ---------------------------------------------------------------------- *)
\* C4: a call of load_program made while an earlier program is on the
\* program stack and frames are free does not fail to map the user stack and
\* the user heap.
C4_SecondLoadMaps ==
    (/\ loads >= 2
     /\ pc = "user"
     /\ PROGRAM_STACK # << >>
     /\ FreeFrames >= UserStackPages + UserHeapPages + 3)
        => result # "MemoryMappingFailed"

(* ---------------------------------------------------------------------- *)
(* C5                                                                      *)
(* ---------------------------------------------------------------------- *)
\* C5: once a LOAD segment with mem_size > file_size has been loaded, and for
\* the rest of the load, every cell of its range at offsets
\* [file_size, mem_size) is mapped and reads zero; the one exception is a
\* cell that the destination word of an applied relocation covers.
C5_BssReadsZero ==
    \A i \in LoadHeaders :
        (SegmentLoaded(i) /\ elf.phs[i].mem_size > elf.phs[i].file_size) =>
            \A o \in elf.phs[i].file_size .. (elf.phs[i].mem_size - 1) :
                /\ Translatable(virtual_address_offset + elf.phs[i].vaddr + o)
                /\ \/ ReadByte(virtual_address_offset + elf.phs[i].vaddr + o) = 0
                   \/ /\ pc # "ld_segments"
                      /\ virtual_address_offset + elf.phs[i].vaddr + o \in RelocatedCells

\* a loaded segment whose bss starts inside its last file-backed page, and
\* one whose bss starts on a page boundary
C5_Witness ==
    /\ pc = "loaded"
    /\ \E i \in LoadHeaders :
          /\ elf.phs[i].mem_size > elf.phs[i].file_size
          /\ (elf.phs[i].vaddr + elf.phs[i].file_size) % PageSize # 0
          /\ ReadByte(virtual_address_offset + elf.phs[i].vaddr + elf.phs[i].file_size) = 0
    /\ \E i \in LoadHeaders :
          /\ elf.phs[i].mem_size > elf.phs[i].file_size
          /\ (elf.phs[i].vaddr + elf.phs[i].file_size) % PageSize = 0
          /\ ReadByte(virtual_address_offset + elf.phs[i].vaddr + elf.phs[i].file_size) = 0

(* ---------------------------------------------------------------------- *)
(* C6                                                                      *)
(* ---------------------------------------------------------------------- *)
\* C6: from the moment the file has been read and for the rest of the load,
\* every cell of the file image in physical memory holds the file's byte; and
\* the file-backed cells of every loaded segment that no relocation has
\* written read as the file's bytes, also where the segment shares a frame of
\* the file with the segment before it.
C6_FileImageUnchanged ==
    /\ pc \in {"ld_segments"} \cup AfterSegments =>
          \A i \in 0 .. (elf.file_len - 1) : ImageByte(i) = FileByte(i)
    /\ \A i \in LoadHeaders :
          SegmentLoaded(i) =>
              \A o \in 0 .. (elf.phs[i].file_size - 1) :
                  \/ virtual_address_offset + elf.phs[i].vaddr + o \in RelocatedCells
                  \/ ReadByte(virtual_address_offset + elf.phs[i].vaddr + o)
                         = FileByte(elf.phs[i].offset + o)

\* a finished load in which make_mut copied the last file-backed page of a
\* segment whose last file frame also holds the first bytes of the next
\* segment, and a relocation was written
C6_Witness ==
    /\ pc = "loaded"
    /\ elf.relas # << >>
    /\ \E i \in LoadHeaders :
          /\ elf.phs[i].mem_size > elf.phs[i].file_size
          /\ (elf.phs[i].offset + elf.phs[i].file_size) % PageSize # 0
          /\ \E j \in LoadHeaders : elf.phs[j].offset = elf.phs[i].offset + elf.phs[i].file_size
          /\ pt[containing_address(virtual_address_offset + elf.phs[i].vaddr
                                   + elf.phs[i].file_size - 1)].frame \notin FileFrames

(* ---------------------------------------------------------------------- *)
(* C7                                                                      *)
(* ---------------------------------------------------------------------- *)
\* C7: after the relocations have been applied, for every R_AMD64_RELATIVE
\* entry with offset X and addend A the word read through the virtual address
\* B + X is B + A, where B is the load bias (virtual_address_offset).
C7_RelocatedWord ==
    pc \in AfterRelocations =>
        \A k \in 1 .. Len(elf.relas) :
            ReadWord(virtual_address_offset + elf.relas[k].offset)
                = virtual_address_offset + elf.relas[k].addend

\* a finished load with a relocation whose destination is not at the start
\* of its page and whose addend fills every cell of the word
C7_Witness ==
    /\ pc = "loaded"
    /\ \E k \in 1 .. Len(elf.relas) :
          /\ elf.relas[k].offset % PageSize # 0
          /\ elf.relas[k].addend = MaxWord
          /\ ReadWord(virtual_address_offset + elf.relas[k].offset) = MaxWord

(* ---------------------------------------------------------------------- *)
(* C8                                                                      *)
(* ---------------------------------------------------------------------- *)
\* the step of the third loop of load_segments that handles a GNU_RELRO header
RelroStep ==
    /\ pc = "ld_relro"
    /\ elf.phs[ph_idx].type = "GnuRelro"
    /\ pc' \in {"ld_relro", "ld_cleanup"}

\* C8: handle_relro_segment leaves every page of the GNU_RELRO range mapped
\* to the frame it had, with the flags it had minus WRITABLE; and once the
\* third loop is over, every page of every GNU_RELRO range is mapped without
\* WRITABLE.
C8_RelroReadOnly ==
    /\ [](pc \in AfterRelro =>
             \A i \in RelroHeaders :
                 \A page \in RangePages(elf.phs[i], elf.phs[i].mem_size) :
                     page \in DOMAIN pt /\ WRITABLE \notin pt[page].flags)
    /\ [][RelroStep =>
             \A page \in RangePages(elf.phs[ph_idx], elf.phs[ph_idx].mem_size) :
                 /\ page \in DOMAIN pt /\ page \in DOMAIN pt'
                 /\ pt'[page].frame = pt[page].frame
                 /\ pt'[page].flags = pt[page].flags \ {WRITABLE}]_vars

\* a finished load whose GNU_RELRO range covers two pages of a writable LOAD
\* segment, one of them privately copied
C8_Witness ==
    /\ pc = "loaded"
    /\ \E i \in RelroHeaders :
          /\ Cardinality(RangePages(elf.phs[i], elf.phs[i].mem_size)) = 2
          /\ \E j \in LoadHeaders :
                /\ elf.phs[j].w
                /\ RangePages(elf.phs[i], elf.phs[i].mem_size)
                       \subseteq RangePages(elf.phs[j], elf.phs[j].mem_size)
          /\ \A page \in RangePages(elf.phs[i], elf.phs[i].mem_size) :
                WRITABLE \notin pt[page].flags
          /\ \E page \in RangePages(elf.phs[i], elf.phs[i].mem_size) :
                pt[page].frame \notin FileFrames

(* ---------------------------------------------------------------------- *)
(* C9                                                                      *)
(* ---------------------------------------------------------------------- *)
\* C9: after load_segments has returned Ok, no mapped page of the range
\* [vaddr, vaddr + mem_size) of any LOAD segment carries COPIED (bit 9).
C9_NoCopiedFlag ==
    pc \in AfterLoadSegments =>
        \A i \in LoadHeaders :
            \A page \in RangePages(elf.phs[i], elf.phs[i].mem_size) :
                page \in DOMAIN pt => COPIED \notin pt[page].flags

\* load_segments returned Ok with privately copied pages in two LOAD segments
C9_Witness ==
    /\ pc = "ld_finish"
    /\ \E i, j \in LoadHeaders :
          /\ i # j
          /\ \E page \in RangePages(elf.phs[i], elf.phs[i].file_size) :
                pt[page].frame \notin FileFrames
          /\ \E page \in RangePages(elf.phs[j], elf.phs[j].file_size) :
                pt[page].frame \notin FileFrames

(* ---------------------------------------------------------------------- *)
(* C10                                                                     *)
(* ---------------------------------------------------------------------- *)
\* the structural violations of a program file
WrongType(file) == file.magic /\ file.etype # "Executable"
OutOfFileHeader(file) ==
    \E i \in 1 .. Len(file.phs) : file.phs[i].offset + file.phs[i].file_size > file.file_len
MultipleTls(file) == Cardinality({i \in 1 .. Len(file.phs) : file.phs[i].type = "Tls"}) > 1
MultipleRela(file) ==
    \E i \in 1 .. Len(file.phs) :
        file.phs[i].type = "Dynamic" /\ TagCount(file.phs[i].tags, "Rela") > 1
MisalignedRelocation(file) ==
    \E k \in 1 .. Len(file.relas) :
        (virtual_address_offset + file.relas[k].offset) % WordSize # 0
UnsupportedRelocation(file) ==
    \E k \in 1 .. Len(file.relas) : file.relas[k].type # R_AMD64_RELATIVE
SymbolRelocation(file) == \E k \in 1 .. Len(file.relas) : file.relas[k].sym # 0
StructuralViolation(file) ==
    \/ WrongType(file) \/ OutOfFileHeader(file) \/ MultipleTls(file) \/ MultipleRela(file)
    \/ MisalignedRelocation(file) \/ UnsupportedRelocation(file) \/ SymbolRelocation(file)

\* load_program has read a file and is no longer loading it
LoadEnded == elf # NoElf /\ pc \notin {"ld_read", "ld_segments"} \cup (AfterSegments \ {"loaded"})

\* C10: when load_program has ended on a file with a structural violation
\* (and the frames did not run out), it returned ElfError and no record is on
\* the program stack.
C10_ViolationIsElfError ==
    (LoadEnded /\ StructuralViolation(elf) /\ memory_regions = FullMap) =>
        result = "ElfError" /\ PROGRAM_STACK = << >>

(* ---------------------------------------------------------------------- *)
(* The interface of the memory mappers                                     *)
(*                                                                         *)
(* A second specification: a UserMemoryMapper has been made (init_memory   *)
(* and UserMemoryMapper::init have run) and its holder calls               *)
(* allocate_frame, map_page and unmap_page on it, and map_page on the      *)
(* kernel mapper beneath it, in any order.                                  *)
(* ---------------------------------------------------------------------- *)
\* the machine before init_memory
FreshMachine(regions) ==
    [regions |-> regions, next |-> 0, out |-> << >>, pt |-> EmptyMap, tables |-> EmptyMap,
     mem |-> [f \in Frames |-> [o \in Offsets |-> Garbage]], lmap |-> EmptyMap]

\* init_memory, then UserMemoryMapper::init
BootedMapper(regions) ==
    With({IF k.res # "Ok" THEN k ELSE UserMemoryMapperInit(k.m) :
          k \in {KernelMemoryMapperInit(FreshMachine(regions))}})

\* frames that init_memory and UserMemoryMapper::init take
BootFrames == BootedMapper(FullMap).m.next

\* memory maps: plenty of frames, or one frame left once the mapper is made
ApiMaps == {FullMap, SmallMap(BootFrames + 1)}

\* the pages the calls name: two pages of one fresh page table, and a page of
\* the user stack, which UserMemoryMapper::init has mapped
ApiPages == {0, 1, containing_address(USER_STACK_MEMORY.start)}
\* the frames the calls name: the last two that allocate_frame returned
ApiFrames == {handed_out[i] : i \in {j \in 1 .. Len(handed_out) : j > Len(handed_out) - 2}}
\* the flags the calls name
ApiFlagSets == {{PRESENT, WRITABLE}, {PRESENT, NO_EXECUTE}}

\* the page loop of make_range_user_accessible: translate, unmap_page and
\* map_page, which ORs in USER_ACCESSIBLE (src/kernel)
RECURSIVE RemapUserAccessible(_, _)
RemapUserAccessible(m, pages) ==
    IF pages = << >> THEN Done(m)
    ELSE IF ~Mapped(m, Head(pages)) THEN Fail(m, "PageNotMapped")
    ELSE With({IF r.res # "Ok" THEN Fail(r.m, "Panic")
               ELSE RemapUserAccessible(r.m, Tail(pages)) :
               r \in {KernelMapPage(KernelUnmap(m, Head(pages)).m, Head(pages),
                                    m.pt[Head(pages)].frame,
                                    m.pt[Head(pages)].flags \cup {USER_ACCESSIBLE})}})

\* a make_range_user_accessible that stops before the last page of the range
make_range_but_last_user_accessible(m, range) ==
    IF range.start % PageSize # 0 THEN Fail(m, "Panic")
    ELSE RemapUserAccessible(m, range_inclusive(containing_address(range.start),
                                                containing_address(last_addr(range)) - 1))
\* UserMemoryMapper::make_range_user_accessible (src/kernel);
\* Page::from_start_address(range.start()).unwrap() wants an aligned start
make_range_user_accessible(m, range) ==
    IF range.start % PageSize # 0 THEN Fail(m, "Panic")
    ELSE RemapUserAccessible(m, range_inclusive(containing_address(range.start),
                                                containing_address(last_addr(range))))

\* the ranges that are passed to make_range_user_accessible
ApiRanges ==
    {VirtMemRange(0, PageSize + 1),
     VirtMemRange(KERNEL_HEAP_MEMORY.start, 1),
     VirtMemRange(KERNEL_HEAP_MEMORY.start + 1, 1)}

MapperInit ==
    /\ \E regions \in ApiMaps :
          /\ BootedMapper(regions).res = "Ok"
          /\ memory_regions = regions
          /\ next = BootedMapper(regions).m.next
          /\ handed_out = BootedMapper(regions).m.out
          /\ pt = BootedMapper(regions).m.pt
          /\ tables = BootedMapper(regions).m.tables
          /\ mem = BootedMapper(regions).m.mem
          /\ local_map = BootedMapper(regions).m.lmap
    /\ locks = {"memory mapper"}
    /\ PROGRAM_STACK = << >>
    /\ SCREEN_STACK = << >>
    /\ pc = "api"
    /\ caller = "main"
    /\ elf = NoElf
    /\ phys_addr = 0
    /\ ph_idx = 0
    /\ tls_template = << >>
    /\ result = "None"
    /\ loads = 1
    /\ popped = << >>
    /\ user_rip = 0
    /\ user_rsp = 0
    /\ sys_ret = "None"
    /\ sys = NoSyscall
    /\ flushed = KernelMemoryMapperInit(FreshMachine(memory_regions)).m.pt
    /\ waiting = NoKeys
    /\ mbr = NoMbr
    /\ call = NoCall
    /\ ulock = UniqueLock(0)
    /\ once = UniqueOnce
    /\ klog = Logger("src")
    /\ ret = NoOp

\* what a call leaves in `call`
Called(op, user, page, frame, flags, res) ==
    [op |-> op, user |-> user, page |-> page, frame |-> frame, flags |-> flags,
     res |-> res, n |-> call.n + 1,
     was |-> IF page \in DOMAIN pt THEN <<pt[page]>> ELSE << >>,
     cursor |-> next,
     before |-> [op |-> call.op, page |-> call.page, res |-> call.res]]

\* MemoryMapper::allocate_frame of the UserMemoryMapper
CallAllocateFrame ==
    /\ pc = "api"
    /\ call.n < MaxCalls
    /\ \E a \in {allocate_frame(Machine)} :
          /\ SetMachine(a.m)
          /\ call' = Called("allocate_frame", TRUE, 0, a.frame, {},
                            IF a.frame = NoFrame THEN "None" ELSE "Some")
    /\ UNCHANGED <<kernelvars, libvars>>

\* MemoryMapper::map_page of the UserMemoryMapper or of the kernel mapper
CallMapPage(page, frame, flags, user) ==
    /\ pc = "api"
    /\ call.n < MaxCalls
    /\ \E r \in {MapPage(Machine, page, frame, flags, user)} :
          /\ SetMachine(r.m)
          /\ call' = Called("map_page", user, page, frame, flags, r.res)
    /\ UNCHANGED <<kernelvars, libvars>>

\* UserMemoryMapper::unmap_page
CallUnmapPage(page) ==
    /\ pc = "api"
    /\ call.n < MaxCalls
    /\ \E r \in {UserUnmapPage(Machine, page)} :
          /\ SetMachine(r.m)
          /\ call' = Called("unmap_page", TRUE, page, NoFrame, {}, r.res)
    /\ UNCHANGED <<kernelvars, libvars>>

\* UserMemoryMapper::make_range_user_accessible (src/kernel)
CallMakeRangeUserAccessible(range) ==
    /\ pc = "api"
    /\ call.n < MaxCalls
    /\ \E r \in {make_range_user_accessible(Machine, range)} :
          /\ SetMachine(r.m)
          /\ call' = [range |-> range]
                        @@ Called("make_range_user_accessible", TRUE,
                                  containing_address(range.start), NoFrame, {}, r.res)
    /\ UNCHANGED <<kernelvars, libvars>>

MapperNext ==
    \/ \E range \in ApiRanges : CallMakeRangeUserAccessible(range)
    \/ CallAllocateFrame
    \/ \E page \in ApiPages, frame \in ApiFrames, flags \in ApiFlagSets, user \in BOOLEAN :
          CallMapPage(page, frame, flags, user)
    \/ \E page \in ApiPages : CallUnmapPage(page)

MapperSpec == MapperInit /\ [][MapperNext]_vars

(* ---------------------------------------------------------------------- *)
(* C11                                                                     *)
(* ---------------------------------------------------------------------- *)
\* C11: when unmap_page(P) directly follows a successful map_page(P, F, flags)
\* on the UserMemoryMapper, the unmap succeeds and translate_page(P) then
\* reports that P is not mapped.
C11_MapThenUnmap ==
    (/\ call.op = "unmap_page"
     /\ call.before.op = "map_page"
     /\ call.before.res = "Ok"
     /\ call.before.page = call.page) =>
        call.res = "Ok" /\ ~Mapped(Machine, call.page)

C11_Witness ==
    /\ call.op = "unmap_page"
    /\ call.before.op = "map_page"
    /\ call.before.res = "Ok"
    /\ call.before.page = call.page
    /\ call.page = 1
    /\ 0 \in DOMAIN pt

(* ---------------------------------------------------------------------- *)
(* C12                                                                     *)
(* ---------------------------------------------------------------------- *)
\* C12: map_page, of the kernel mapper or of the user mapper, on a page that
\* is mapped returns PageAlreadyMapped, and the page still translates to the
\* frame and the flags it had.
C12_AlreadyMapped ==
    (call.op = "map_page" /\ call.was # << >>) =>
        /\ call.res = "PageAlreadyMapped"
        /\ call.page \in DOMAIN pt
        /\ pt[call.page] = call.was[1]

C12_Witness ==
    /\ call.op = "map_page"
    /\ call.was # << >>
    /\ call.frame # call.was[1].frame
    /\ call.flags \cup {USER_ACCESSIBLE} # call.was[1].flags
    /\ call.res = "PageAlreadyMapped"

InUsableRegion(regions, frame) ==
    \E i \in 1 .. Len(regions) :
        /\ regions[i].kind = "Usable"
        /\ regions[i].start <= start_address(frame)
        /\ start_address(frame) + PageSize <= regions[i].end

\* C14: the frames that allocate_frame has returned, to the page-table walk,
\* alloc_writable_range, handle_bss_section, make_mut and load_from_disk
\* alike, are pairwise distinct, and each lies inside a usable region of the
\* memory map.
C14_FramesDistinctUsable ==
    /\ \A i, j \in 1 .. Len(handed_out) : i # j => handed_out[i] # handed_out[j]
    /\ \A i \in 1 .. Len(handed_out) : InUsableRegion(memory_regions, handed_out[i])

C14_Witness ==
    /\ pc = "loaded"
    /\ Len(memory_regions) > 2
    /\ elf.relas # << >>
    /\ \E i \in LoadHeaders : elf.phs[i].mem_size > elf.phs[i].file_size + PageSize
    /\ Len(handed_out) = next
    /\ Len(handed_out) > BootFrames + 3

(* ---------------------------------------------------------------------- *)
(* C15                                                                     *)
(* ---------------------------------------------------------------------- *)
\* the number of usable frames in the memory map
UsableCount == Len(usable_frames(memory_regions))

\* C15: with N usable frames in the memory map, a call of allocate_frame
\* returns a frame exactly when fewer than N calls came before it, so the
\* first N calls return a frame and every later one returns None; a call that
\* returns None changes neither the frames handed out, nor the page tables,
\* nor the ledger, nor physical memory.
C15_ExhaustionReturnsNone ==
    /\ [](/\ Len(handed_out) = (IF next < UsableCount THEN next ELSE UsableCount)
          /\ call.op = "allocate_frame" =>
                ((call.cursor < UsableCount) <=> (call.frame # NoFrame)))
    /\ [][(call'.op = "allocate_frame" /\ call'.n = call.n + 1 /\ call'.frame = NoFrame)
             => UNCHANGED <<handed_out, pt, tables, mem, local_map>>]_vars

C15_Witness ==
    /\ call.op = "allocate_frame"
    /\ call.frame = NoFrame
    /\ call.cursor = UsableCount + 1
    /\ call.before.op = "allocate_frame"
    /\ call.before.res = "None"
    /\ Len(handed_out) = UsableCount

(* ---------------------------------------------------------------------- *)
(* C16                                                                     *)
(* ---------------------------------------------------------------------- *)
\* the configured ranges of the model, in cells
ConfiguredRanges ==
    <<KERNEL_STACK_MEMORY, KERNEL_HEAP_MEMORY, USER_STACK_MEMORY, USER_HEAP_MEMORY>>

\* the configured ranges with the sizes of the source, in KiB and counted
\* from EXECUTION_MEMORY_START (0xc000_0000_0000, a multiple of 4 KiB):
\* 8 KiB of kernel stack, 8 MiB of kernel heap, 512 KiB of user stack and
\* 1 MiB of user heap, each starting where the one before it ends
SourceRangesKiB ==
    <<VirtMemRange(0, 8),
      VirtMemRange(end_u64(VirtMemRange(0, 8)), 8 * 1024),
      VirtMemRange(end_u64(VirtMemRange(8, 8 * 1024)), 512),
      VirtMemRange(end_u64(VirtMemRange(8 + 8 * 1024, 512)), 1024)>>

\* the ranges of KernelMemory and UserMemory (src/kernel), in pages from
\* EXECUTION_MEMORY_START: three stacks of one page, a heap of 8 pages, a
\* user stack of 4 pages and a user heap of 64 pages
KernelMemoryRanges ==
    <<VirtMemRange(0, 1), VirtMemRange(1, 1), VirtMemRange(2, 1), VirtMemRange(3, 8),
      VirtMemRange(3 + 8, 4), VirtMemRange(3 + 8 + 4, 64)>>

\* two ranges share an address
Overlap(a, b) == a.start < end_u64(b) /\ b.start < end_u64(a)

\* no two ranges of the layout overlap; bases and sizes are whole pages
DisjointAligned(ranges, page_size) ==
    /\ \A i, j \in 1 .. Len(ranges) : i # j => ~Overlap(ranges[i], ranges[j])
    /\ \A i \in 1 .. Len(ranges) :
          /\ ranges[i].size > 0
          /\ ranges[i].start % page_size = 0
          /\ ranges[i].size % page_size = 0

\* the pages of a range
PagesOf(range) ==
    {p \in Pages : /\ start_address(p) >= range.start
                   /\ start_address(p) < end_u64(range)}

\* C16: the configured ranges (kernel stack, kernel heap, user stack, user
\* heap) are pairwise disjoint and each has a base and a size of whole pages:
\* in the model's layout, with the sizes of the source (pages of 4 KiB), and
\* in the layout of KernelMemory and UserMemory.  No mapped page lies in two
\* of the ranges.
C16_RangesDisjointAligned ==
    /\ \A p \in DOMAIN pt :
          Cardinality({i \in 1 .. Len(ConfiguredRanges) :
                          p \in PagesOf(ConfiguredRanges[i])}) <= 1
    /\ DisjointAligned(ConfiguredRanges, PageSize)
    /\ DisjointAligned(SourceRangesKiB, 4)
    /\ DisjointAligned(KernelMemoryRanges, 1)

\* all four ranges are mapped, each page to a frame of its own
C16_Witness ==
    /\ pc = "ld_read"
    /\ \A i \in 1 .. Len(ConfiguredRanges) :
          /\ PagesOf(ConfiguredRanges[i]) # {}
          /\ PagesOf(ConfiguredRanges[i]) \subseteq DOMAIN pt
    /\ Cardinality({pt[p].frame : p \in UNION {PagesOf(ConfiguredRanges[i]) :
                                                  i \in 1 .. Len(ConfiguredRanges)}})
           = KernelStackPages + KernelHeapPages + UserStackPages + UserHeapPages

(* ---------------------------------------------------------------------- *)
(* uniquelock and the logger                                               *)
(*                                                                         *)
(* A third specification: calls on one UniqueLock<i32> and one             *)
(* UniqueOnce<i32>, as the tests of the library make them, and log calls   *)
(* of the main path of the kernel with keyboard interrupts whose handler   *)
(* logs the key.  The main path holds the guard of KERNEL_TEXT_SCREEN      *)
(* from the start of a log call to its end; an interrupt handler runs to   *)
(* its end before the main path goes on.                                   *)
(* ---------------------------------------------------------------------- *)
LockInit ==
    /\ memory_regions = FullMap
    /\ next = 0
    /\ handed_out = << >>
    /\ pt = EmptyMap
    /\ tables = EmptyMap
    /\ mem = [f \in Frames |-> [o \in Offsets |-> Garbage]]
    /\ local_map = EmptyMap
    /\ locks = {}
    /\ PROGRAM_STACK = << >>
    /\ SCREEN_STACK = << >>
    /\ pc = "lib"
    /\ caller = "main"
    /\ elf = NoElf
    /\ phys_addr = 0
    /\ ph_idx = 0
    /\ tls_template = << >>
    /\ result = "None"
    /\ loads = 0
    /\ popped = << >>
    /\ user_rip = 0
    /\ user_rsp = 0
    /\ sys_ret = "None"
    /\ sys = NoSyscall
    /\ flushed = EmptyMap
    /\ waiting = NoKeys
    /\ mbr = NoMbr
    /\ call = NoCall
    /\ ulock = UniqueLock(0)
    /\ once = UniqueOnce
    /\ klog \in {Logger("src"), Logger("kernel")}
    /\ ret = NoOp

\* lock.lock(): the guard, or Err(LockError)
LockCall ==
    /\ pc = "lib"
    /\ ret.n < MaxOps
    /\ \E r \in {UniqueLock_lock(ulock.locked)} :
          /\ ulock' = IF r = "Ok"
                      THEN [ulock EXCEPT !.locked = TRUE, !.guards = @ + 1]
                      ELSE ulock
          /\ ret' = Returned("lock", r, ulock.val)
    /\ UNCHANGED <<kernelvars, machinevars, once, klog, waiting>>

\* *val += 1 through a guard
GuardWrite ==
    /\ pc = "lib"
    /\ ret.n < MaxOps
    /\ ulock.guards > 0
    /\ ulock' = [ulock EXCEPT !.val = @ + 1]
    /\ ret' = Returned("write", "Ok", ulock.val + 1)
    /\ UNCHANGED <<kernelvars, machinevars, once, klog, waiting>>

\* a guard goes out of scope: the SpinlockGuard unlocks the mutex
GuardDrop ==
    /\ pc = "lib"
    /\ ret.n < MaxOps
    /\ ulock.guards > 0
    /\ ulock' = [ulock EXCEPT !.locked = FALSE, !.guards = @ - 1]
    /\ ret' = Returned("drop", "Ok", ulock.val)
    /\ UNCHANGED <<kernelvars, machinevars, once, klog, waiting>>

\* lock.is_locked()
IsLocked ==
    /\ pc = "lib"
    /\ ret.n < MaxOps
    /\ ret' = Returned("is_locked", IF is_locked(ulock) THEN "true" ELSE "false", ulock.val)
    /\ UNCHANGED <<kernelvars, machinevars, ulock, once, klog, waiting>>

\* once.call_once(|| val)
OnceCall(val) ==
    /\ pc = "lib"
    /\ ret.n < MaxOps
    /\ \E r \in {call_once(once, val)} :
          /\ once' = r.once
          /\ ret' = Returned("call_once", r.res, val)
    /\ UNCHANGED <<kernelvars, machinevars, ulock, klog, waiting>>

\* once.get()
OnceGet ==
    /\ pc = "lib"
    /\ ret.n < MaxOps
    /\ ret' = Returned("get", get(once).res, get(once).val)
    /\ UNCHANGED <<kernelvars, machinevars, ulock, once, klog, waiting>>

\* KernelLogger::log on the main path: lock_kernel_screen
LogBegin ==
    /\ pc = "lib"
    /\ ret.n < MaxOps
    /\ klog.main = "idle"
    /\ klog.irq = "none"
    /\ klog' = IF LogLock(klog) = "Ok"
               THEN [klog EXCEPT !.held = TRUE, !.main = "writing"]
               ELSE klog
    /\ ret' = Returned("log", LogLock(klog), klog.lines)
    /\ UNCHANGED <<kernelvars, machinevars, ulock, once, waiting>>

\* KernelLogger::log on the main path: the line is written, the writer dropped
LogEnd ==
    /\ pc = "lib"
    /\ ret.n < MaxOps
    /\ klog.main = "writing"
    /\ klog.irq = "none"
    /\ klog' = [klog EXCEPT !.held = FALSE, !.main = "idle", !.lines = @ + 1]
    /\ ret' = Returned("logged", "Ok", klog.lines + 1)
    /\ UNCHANGED <<kernelvars, machinevars, ulock, once, waiting>>

LockNext ==
    \/ LockCall
    \/ GuardWrite
    \/ GuardDrop
    \/ IsLocked
    \/ \E val \in {14, 15} : OnceCall(val)
    \/ OnceGet
    \/ LogBegin
    \/ LogEnd
    \/ \E key \in Keys : KeyboardInterrupt(key)

LockSpec == LockInit /\ [][LockNext]_vars

(* ---------------------------------------------------------------------- *)
(* C17                                                                     *)
(* ---------------------------------------------------------------------- *)
\* the guards that are held
HeldGuards == locks \cup (IF klog.held THEN {"kernel screen"} ELSE {})

\* C17: acquiring a guard of the shared state (program stack, screen stack,
\* page-table mapper, kernel text screen) that is held returns a failure at
\* once, it never waits for a release.
C17_AcquireFailsFast ==
    \A guard \in HeldGuards : Acquire(guard, klog.tree, TRUE) = "LockError"

(* ---------------------------------------------------------------------- *)
(* C18                                                                     *)
(* ---------------------------------------------------------------------- *)
\* C18: a UniqueLock has at most one guard at any time, and is_locked() is
\* true exactly while the guard exists; lock() on a held lock returns
\* Err(LockError) and leaves the lock and its value as they are; dropping the
\* guard releases the lock and keeps the value; lock() on a free lock
\* succeeds and sees the value that earlier guards left.
C18_UniqueLockExclusion ==
    /\ [](/\ ulock.guards <= 1
          /\ is_locked(ulock) <=> (ulock.guards = 1)
          /\ (ret.op = "is_locked") => ((ret.res = "true") <=> (ulock.guards = 1)))
    /\ [][/\ (ret'.op = "lock" /\ ret'.n = ret.n + 1 /\ ulock.guards = 1) =>
                (ret'.res = "LockError" /\ ulock' = ulock)
          /\ (ret'.op = "lock" /\ ret'.n = ret.n + 1 /\ ulock.guards = 0) =>
                (/\ ret'.res = "Ok"
                 /\ ret'.val = ulock.val
                 /\ ulock'.val = ulock.val
                 /\ ulock'.guards = 1)
          /\ (ret'.op = "drop" /\ ret'.n = ret.n + 1) =>
                (ulock'.guards = 0 /\ ~is_locked(ulock') /\ ulock'.val = ulock.val)]_vars

\* the lock was taken, the value raised, the guard dropped, the lock taken again
C18_Witness ==
    /\ ret.op = "lock"
    /\ ret.res = "Ok"
    /\ ret.val = 1
    /\ ret.before.op = "drop"
    /\ ulock.guards = 1

(* ---------------------------------------------------------------------- *)
(* C19                                                                     *)
(* ---------------------------------------------------------------------- *)
\* C19: get() on a UniqueOnce returns NotInit before the first call_once and
\* the stored value after it; the first call_once stores its value and
\* returns Ok; every later call_once returns AlreadyInit; once initialized,
\* the UniqueOnce never changes, so get() always returns the first value.
C19_UniqueOnceInitOnce ==
    /\ [](/\ once.initialized <=> (once.data # Uninit)
          /\ (ret.op = "get") =>
                (IF once.initialized
                 THEN ret.res = "Ok" /\ ret.val = once.data
                 ELSE ret.res = "NotInit"))
    /\ [][/\ once.initialized => (once' = once)
          /\ (ret'.op = "call_once" /\ ret'.n = ret.n + 1 /\ ~once.initialized) =>
                (ret'.res = "Ok" /\ once'.initialized /\ once'.data = ret'.val)
          /\ (ret'.op = "call_once" /\ ret'.n = ret.n + 1 /\ once.initialized) =>
                (ret'.res = "AlreadyInit")]_vars

\* call_once(|| 14), call_once(|| 15), get()
C19_Witness ==
    /\ ret.op = "get"
    /\ ret.res = "Ok"
    /\ ret.val = 14
    /\ ret.before.op = "call_once"
    /\ ret.before.res = "AlreadyInit"
    /\ ret.before.val = 15

(* ---------------------------------------------------------------------- *)
(* C20                                                                     *)
(* ---------------------------------------------------------------------- *)
\* C20: a log call made while the guard of the kernel text screen is held
\* (an interrupt handler that logs in the middle of a log call of the main
\* path) drops its line and returns: no log call spins on the guard, and
\* every log call that found the guard held has dropped its line.
C20_BusyLogDropped ==
    /\ klog.irq # "spinning"
    /\ klog.dropped = klog.busy
(* ---------------------------------------------------------------------- *)
(* The program stack                                                       *)
(*                                                                         *)
(* A fourth specification: one call of the syscall handler, with the wait, *)
(* the notification and the exits that follow it, on each of the program   *)
(* and screen stacks that push_program and push_screen build.  The page    *)
(* table is the kernel's after init_memory.                                *)
(* ---------------------------------------------------------------------- *)
\* the memory contexts of the programs pushed: no page, or one page of the user stack
ProgramContexts ==
    {EmptyMap,
     [page \in {containing_address(USER_STACK_MEMORY.start)} |->
        [frame |-> NumFrames - 1, flags |-> {PRESENT, WRITABLE, USER_ACCESSIBLE}]]}

\* the records that push_program and push_screen leave on the program stack
ProgramRecords ==
    {[UserProgram(context) EXCEPT !.has_screen = has_screen] :
        context \in ProgramContexts, has_screen \in BOOLEAN}
\* the program stacks of up to MaxPrograms programs
ProgramStacks == UNION {[1 .. n -> ProgramRecords] : n \in 0 .. MaxPrograms}
\* the programs of a stack that have a screen
WithScreen(programs) == {i \in 1 .. Len(programs) : programs[i].has_screen}
\* the screen stacks that go with a program stack: one screen for each program
\* that has one
ScreenStacks(programs) ==
    [1 .. Cardinality(WithScreen(programs)) -> {TextScreen, ImageScreen}]

ProgramInit ==
    /\ memory_regions = FullMap
    /\ next = KernelMemoryMapperInit(FreshMachine(FullMap)).m.next
    /\ handed_out = KernelMemoryMapperInit(FreshMachine(FullMap)).m.out
    /\ pt = KernelMemoryMapperInit(FreshMachine(FullMap)).m.pt
    /\ tables = KernelMemoryMapperInit(FreshMachine(FullMap)).m.tables
    /\ mem = KernelMemoryMapperInit(FreshMachine(FullMap)).m.mem
    /\ local_map = EmptyMap
    /\ locks = {}
    /\ PROGRAM_STACK \in ProgramStacks
    /\ SCREEN_STACK \in ScreenStacks(PROGRAM_STACK)
    /\ pc = "user"
    /\ caller = "main"
    /\ elf \in SyscallPrograms
    /\ phys_addr = 0
    /\ ph_idx = 0
    /\ tls_template = << >>
    /\ result = "None"
    /\ loads = 1
    /\ popped = << >>
    /\ user_rip = 0
    /\ user_rsp = 0
    /\ sys_ret = "None"
    \* one syscall in each run
    /\ sys = [NoSyscall EXCEPT !.n = MaxSyscalls - 1]
    /\ flushed = pt
    /\ waiting = NoKeys
    /\ mbr = NoMbr
    /\ call = NoCall
    /\ ulock = UniqueLock(0)
    /\ once = UniqueOnce
    /\ klog = Logger("src")
    /\ ret = NoOp

\* a function of program.rs that is no syscall has been called
CalledProgram(id, res) ==
    /\ sys' = [sys EXCEPT !.id = id]
    /\ sys_ret' = res

\* pop_screen, as it leaves the stacks and what it returns
pop_screen(programs, screens, held) ==
    IF "program stack" \in held \/ programs = << >>
    THEN [res |-> "panic", programs |-> programs, screens |-> screens]
    ELSE IF ~Last(programs).has_screen
    THEN [res |-> "MissingScreen", programs |-> programs, screens |-> screens]
    ELSE IF "screen stack" \in held
    THEN [res |-> "panic",
          programs |-> [programs EXCEPT ![Len(programs)].has_screen = FALSE],
          screens |-> screens]
    ELSE [res |-> "Ok",
          programs |-> [programs EXCEPT ![Len(programs)].has_screen = FALSE],
          screens |-> IF screens = << >> THEN screens ELSE Front(screens)]

\* pop_screen()
PopScreen ==
    /\ pc = "user"
    /\ sys.n < MaxSyscalls
    /\ \E r \in {pop_screen(PROGRAM_STACK, SCREEN_STACK, locks)} :
          /\ PROGRAM_STACK' = r.programs
          /\ SCREEN_STACK' = r.screens
          /\ pc' = IF r.res = "panic" THEN "panic" ELSE pc
          /\ sys' = Entered("pop_screen", 0, 0)
          /\ sys_ret' = r.res
    /\ UNCHANGED <<mem, locks, loadvars, waiting, libcalls>>

\* current_program_notify(), called in an interrupt handler while the top
\* program runs or waits; in the wait, hlt returns after the handler
Notify ==
    /\ \/ pc = "wait" /\ ~waiting.woken /\ waiting' = [waiting EXCEPT !.woken = TRUE]
       \/ pc = "user" /\ UNCHANGED waiting
    /\ \E r \in {current_program_notify(PROGRAM_STACK, locks)} :
          /\ PROGRAM_STACK' = r.programs
          /\ CalledProgram("current_program_notify", IF r.res THEN "true" ELSE "false")
    /\ UNCHANGED <<pc, mem, locks, SCREEN_STACK, loadvars, libcalls>>

\* the positions and characters the programs draw
DrawPositions == {pack_u32s(1, 1), pack_u32s(U32Range - 1, 1)}
DrawData == {0, 3}

ProgramNext ==
    \/ PopScreen
    \/ Notify
    \/ ProgramExit
    \/ \E arg_base \in 0 .. 2 : ScreenCreate(arg_base)
    \/ \E id \in {"MemAlloc", "MemDealloc", "MemAllocZeroed"}, arg_len \in LayoutArgs :
          \E arg_base \in PointerArgs(id) : MemSyscall(id, arg_base, arg_len)
    \/ \E arg_base \in DrawPositions, arg_len \in DrawData : ScreenSetChar(arg_base, arg_len)
    \/ \E arg_base \in DrawPositions, arg_len \in DrawData : ScreenSetPixel(arg_base, arg_len)
    \/ WaitForConfirm
    \/ WaitPoll

ProgramSpec == ProgramInit /\ [][ProgramNext]_vars

(* ---------------------------------------------------------------------- *)
(* The master boot record library (src/libraries/mbr).  A buffer is the    *)
(* sequence of its bytes, so byte i of the code is buffer[i + 1]; the u32  *)
(* values drawn are below 2^31.                                            *)
(* ---------------------------------------------------------------------- *)
BUFFER_SIZE == 512
TABLE_OFFSET == 446
ENTRY_SIZE == 16
SUFFIX_BYTES == <<85, 170>>
MAX_ENTRIES == (BUFFER_SIZE - TABLE_OFFSET - 2) \div ENTRY_SIZE
Byte == 256

\* the constructors of PartitionType; Unused carries no byte
PartitionType(variant, tag) == [variant |-> variant, tag |-> IF variant = "Unused" THEN 0 ELSE tag]

\* PartitionType::from_mbr_tag_byte
from_mbr_tag_byte(tag) ==
    IF tag = 0 THEN PartitionType("Unused", 0)
    ELSE IF tag = 1 THEN PartitionType("Fat12", tag)
    ELSE IF tag \in {4, 6, 14} THEN PartitionType("Fat16", tag)
    ELSE IF tag \in {11, 12, 27, 28} THEN PartitionType("Fat32", tag)
    ELSE IF tag = 131 THEN PartitionType("LinuxExt", tag)
    ELSE IF tag = 7 THEN PartitionType("NtfsExfat", tag)
    ELSE IF tag = 175 THEN PartitionType("HfsPlus", tag)
    ELSE PartitionType("Unknown", tag)

\* PartitionType::to_mbr_tag_byte
to_mbr_tag_byte(partition_type) ==
    IF partition_type.variant = "Unused" THEN 0 ELSE partition_type.tag

\* PartitionTableEntry::new and PartitionTableEntry::empty
PartitionTableEntry(bootable, partition_type, logical_block_address, sector_count) ==
    [bootable |-> bootable, partition_type |-> partition_type,
     logical_block_address |-> logical_block_address, sector_count |-> sector_count]
PartitionTableEntry_empty == PartitionTableEntry(FALSE, PartitionType("Unused", 0), 0, 0)

\* read_u32_le of the four bytes of buf from byte `at`; write_u32_le's byte i
read_u32_le(buf, at) ==
    buf[at + 1] + Byte * buf[at + 2] + Byte * Byte * buf[at + 3]
        + Byte * Byte * Byte * buf[at + 4]
to_le_byte(val, i) == (val \div Pow(Byte, i)) % Byte

\* from_bytes that looks at the last byte of the suffix only
from_bytes_last_suffix_byte(buffer) ==
    IF Len(buffer) < BUFFER_SIZE
    THEN [res |-> "BufferWrongSizeError", entries |-> << >>]
    ELSE IF buffer[BUFFER_SIZE] # SUFFIX_BYTES[2]
    THEN [res |-> "InvalidMBRSuffix", entries |-> << >>]
    ELSE [res |-> "Ok", entries |-> << >>]
\* MasterBootRecord::from_bytes
from_bytes(buffer) ==
    IF Len(buffer) < BUFFER_SIZE
    THEN [res |-> "BufferWrongSizeError", entries |-> << >>]
    ELSE IF SubSeq(buffer, BUFFER_SIZE - Len(SUFFIX_BYTES) + 1, BUFFER_SIZE) # SUFFIX_BYTES
    THEN [res |-> "InvalidMBRSuffix", entries |-> << >>]
    ELSE [res |-> "Ok",
          entries |-> [idx \in 1 .. MAX_ENTRIES |->
              With({PartitionTableEntry(buffer[offset + 1] # 0,
                                        from_mbr_tag_byte(buffer[offset + 4 + 1]),
                                        read_u32_le(buffer, offset + 8),
                                        read_u32_le(buffer, offset + 12)) :
                    offset \in {TABLE_OFFSET + (idx - 1) * ENTRY_SIZE}})]]

\* the byte serialize leaves at byte i of the buffer
SerializedByte(entries, buffer, i) ==
    IF i >= BUFFER_SIZE - Len(SUFFIX_BYTES) /\ i < BUFFER_SIZE
    THEN SUFFIX_BYTES[i - (BUFFER_SIZE - Len(SUFFIX_BYTES)) + 1]
    ELSE IF i < TABLE_OFFSET \/ i >= BUFFER_SIZE THEN buffer[i + 1]
    ELSE With({IF rel = 0 THEN (IF entry.bootable THEN 128 ELSE 0)
               ELSE IF rel = 4 THEN to_mbr_tag_byte(entry.partition_type)
               ELSE IF rel \in 8 .. 11 THEN to_le_byte(entry.logical_block_address, rel - 8)
               ELSE IF rel \in 12 .. 15 THEN to_le_byte(entry.sector_count, rel - 12)
               ELSE buffer[i + 1] :
               entry \in {entries[(i - TABLE_OFFSET) \div ENTRY_SIZE + 1]},
               rel \in {(i - TABLE_OFFSET) % ENTRY_SIZE}})

\* MasterBootRecord::serialize
serialize(entries, buffer) ==
    IF Len(buffer) < BUFFER_SIZE
    THEN [res |-> "BufferWrongSizeError", buffer |-> buffer, val |-> 0]
    ELSE [res |-> "Ok",
          buffer |-> [i \in 1 .. Len(buffer) |-> SerializedByte(entries, buffer, i - 1)],
          val |-> BUFFER_SIZE]

\* the partition entries that are put in the table
TableEntries ==
    {PartitionTableEntry(TRUE, PartitionType("Fat32", 12), 1, 258),
     PartitionTableEntry(FALSE, PartitionType("Unknown", 5), 16909060, 0),
     PartitionTableEntry(TRUE, PartitionType("ISO9660", 150), 2, 65536)}
\* the buffers that are passed, before anything is written to them
FillBytes == {0}
BufferLengths == {BUFFER_SIZE - 1, BUFFER_SIZE, BUFFER_SIZE + 1}
\* the bytes that are overwritten in a serialized buffer, and with what
PokedBytes == {BUFFER_SIZE - 2, BUFFER_SIZE - 1, TABLE_OFFSET}
PokedValues == {0, 85}

NoParse == [res |-> "None", entries |-> << >>, roundtrip |-> FALSE]

MbrInit ==
    /\ memory_regions = FullMap
    /\ next = 0
    /\ handed_out = << >>
    /\ pt = EmptyMap
    /\ tables = EmptyMap
    /\ mem = [f \in Frames |-> [o \in Offsets |-> Garbage]]
    /\ local_map = EmptyMap
    /\ locks = {}
    /\ PROGRAM_STACK = << >>
    /\ SCREEN_STACK = << >>
    /\ pc = "lib"
    /\ caller = "main"
    /\ elf = NoElf
    /\ phys_addr = 0
    /\ ph_idx = 0
    /\ tls_template = << >>
    /\ result = "None"
    /\ loads = 0
    /\ popped = << >>
    /\ user_rip = 0
    /\ user_rsp = 0
    /\ sys_ret = "None"
    /\ sys = NoSyscall
    /\ flushed = EmptyMap
    /\ waiting = NoKeys
    /\ call = NoCall
    /\ ulock = UniqueLock(0)
    /\ once = UniqueOnce
    /\ klog = Logger("src")
    /\ ret = NoOp
    /\ \E len \in BufferLengths, fill \in FillBytes :
          mbr = [entries |-> [idx \in 1 .. MAX_ENTRIES |-> PartitionTableEntry_empty],
                 buffer |-> [i \in 1 .. len |-> fill],
                 written |-> << >>, synced |-> FALSE, parsed |-> NoParse, n |-> 0]

\* everything but the partition table and the buffer
nombrvars ==
    <<memory_regions, next, handed_out, pt, tables, mem, local_map, locks, PROGRAM_STACK,
      SCREEN_STACK, pc, caller, elf, phys_addr, ph_idx, tls_template, result, loads, popped,
      user_rip, user_rsp, sys_ret, sys, flushed, waiting, call, ulock, once, klog, ret>>

\* mbr.entries[idx] = entry, the fields being public
SetEntry(idx, entry) ==
    /\ mbr.n < MaxEdits
    /\ mbr' = [mbr EXCEPT !.entries[idx] = entry, !.n = @ + 1]
    /\ UNCHANGED nombrvars

\* mbr.serialize(&mut buffer)
Serialize ==
    /\ \E r \in {serialize(mbr.entries, mbr.buffer)} :
          mbr' = [mbr EXCEPT !.buffer = r.buffer,
                             !.written = IF r.res = "Ok" THEN mbr.entries ELSE @,
                             !.synced = IF r.res = "Ok" THEN TRUE ELSE @,
                             !.parsed = NoParse]
    /\ UNCHANGED nombrvars

\* a byte of the serialized buffer is overwritten
PokeBuffer(i, val) ==
    /\ mbr.synced
    /\ i < Len(mbr.buffer)
    /\ mbr' = [mbr EXCEPT !.buffer[i + 1] = val, !.synced = FALSE, !.parsed = NoParse]
    /\ UNCHANGED nombrvars

\* MasterBootRecord::from_bytes(&buffer)
FromBytes ==
    /\ \E r \in {from_bytes(mbr.buffer)} :
          mbr' = [mbr EXCEPT !.parsed = [res |-> r.res, entries |-> r.entries,
                                         roundtrip |-> mbr.synced]]
    /\ UNCHANGED nombrvars

MbrNext ==
    \/ \E idx \in 1 .. MAX_ENTRIES, entry \in TableEntries : SetEntry(idx, entry)
    \/ Serialize
    \/ \E i \in PokedBytes, val \in PokedValues : PokeBuffer(i, val)
    \/ FromBytes

MbrSpec == MbrInit /\ [][MbrNext]_vars

(* ---------------------------------------------------------------------- *)
(* C21: for every syscall id and every value of the two argument           *)
(* registers that a running program issues, the handler returns a packed   *)
(* result or performs the exit: no step of the syscall handler ends in     *)
(* the kernel's panic.                                                     *)
(* ---------------------------------------------------------------------- *)
C21_SyscallNeverPanics == [][sys'.n = sys.n + 1 => pc' # "panic"]_vars

(* ---------------------------------------------------------------------- *)
(* C22: a MemAlloc, MemDealloc or MemAllocZeroed syscall works on the      *)
(* allocator of the program on top of the program stack and on no other:   *)
(* the programs below the top are left as they were, the top program's     *)
(* allocator becomes what the closure makes of it and the closure's value  *)
(* is what the syscall returns; with an empty program stack the handler    *)
(* panics.                                                                 *)
(* ---------------------------------------------------------------------- *)
MemSyscalls == {"MemAlloc", "MemDealloc", "MemAllocZeroed"}

C22_TopProgramAllocator ==
    [][(sys'.n = sys.n + 1 /\ sys'.id \in MemSyscalls) =>
          IF PROGRAM_STACK = << >> THEN pc' = "panic"
          ELSE pc' # "panic" =>
                  \E r \in {MemClosure(sys'.id, Last(PROGRAM_STACK).allocator,
                                       sys'.arg_base, sys'.arg_len)} :
                     /\ Len(PROGRAM_STACK') = Len(PROGRAM_STACK)
                     /\ Front(PROGRAM_STACK') = Front(PROGRAM_STACK)
                     /\ Last(PROGRAM_STACK').allocator = r.heap
                     /\ sys'.val = r.val]_vars

\* a program with a suspended parent has allocated a block: the block is in
\* its own allocator and the parent's is untouched
C22_Witness ==
    /\ Len(PROGRAM_STACK) = 2
    /\ sys.id = "MemAlloc"
    /\ sys_ret = "Ok"
    /\ sys.val # 0
    /\ PROGRAM_STACK[2].allocator.blocks # {}
    /\ PROGRAM_STACK[1].allocator.blocks = {}

(* ---------------------------------------------------------------------- *)
(* C23: a program blocked in current_program_wait resumes after a          *)
(* confirmation key: once the keyboard handler has handled the space key   *)
(* and the wait loop has read the flag with the guard free, the program is *)
(* waiting no longer.                                                      *)
(* ---------------------------------------------------------------------- *)
ConfirmKeys == {"space"}

C23_ResumesAfterConfirmKey ==
    ~ /\ pc = "wait"
      /\ waiting.keys \cap ConfirmKeys # {}
      /\ ~waiting.woken
      /\ "program stack" \notin locks

(* ---------------------------------------------------------------------- *)
(* C24: the screen calls of a program report misuse as error values and    *)
(* leave the program stack and the screen stack as they were: creating a   *)
(* screen, of either kind, when the current program has one returns        *)
(* HasExistingScreen; set_screen_char, set_screen_pixel and pop_screen     *)
(* without a screen return MissingScreen; set_screen_char on an image      *)
(* screen and set_screen_pixel on a text screen return ScreenWrongType.    *)
(* ---------------------------------------------------------------------- *)
ScreenCalls == {"ScreenCreate", "ScreenSetChar", "ScreenSetPixel", "pop_screen"}

\* the error value the claim gives the call, "Ok" where it names no misuse
ScreenMisuse(id, arg_base, programs, screens) ==
    IF id = "ScreenCreate"
    THEN IF unpack_bool(arg_base) = "InvalidValue" THEN "InvalidValue"
         ELSE IF Last(programs).has_screen THEN "HasExistingScreen" ELSE "Ok"
    ELSE IF ~Last(programs).has_screen THEN "MissingScreen"
    ELSE IF id = "ScreenSetChar" /\ Last(screens).kind = "Image" THEN "ScreenWrongType"
    ELSE IF id = "ScreenSetPixel" /\ Last(screens).kind = "Text" THEN "ScreenWrongType"
    ELSE "Ok"

C24_ScreenMisuseReported ==
    [][(/\ sys'.n = sys.n + 1
        /\ sys'.id \in ScreenCalls
        /\ PROGRAM_STACK # << >>
        /\ locks = {}
        /\ ScreenMisuse(sys'.id, sys'.arg_base, PROGRAM_STACK, SCREEN_STACK) \in UserErrors)
       => /\ pc' = pc
          /\ sys_ret' = ScreenMisuse(sys'.id, sys'.arg_base, PROGRAM_STACK, SCREEN_STACK)
          /\ PROGRAM_STACK' = PROGRAM_STACK
          /\ SCREEN_STACK' = SCREEN_STACK]_vars

(* ---------------------------------------------------------------------- *)
(* C25: for every partition table, whatever the bootable flag, the         *)
(* partition type, the logical block address and the sector count of each  *)
(* of its four entries, parsing the buffer that serialize has written      *)
(* gives entries equal to the table's in all four fields.                  *)
(* ---------------------------------------------------------------------- *)
C25_SerializeParseRoundTrip ==
    (mbr.parsed.res = "Ok" /\ mbr.parsed.roundtrip) =>
        \A idx \in 1 .. MAX_ENTRIES :
           /\ mbr.parsed.entries[idx].bootable = mbr.written[idx].bootable
           /\ mbr.parsed.entries[idx].partition_type = mbr.written[idx].partition_type
           /\ mbr.parsed.entries[idx].logical_block_address
                  = mbr.written[idx].logical_block_address
           /\ mbr.parsed.entries[idx].sector_count = mbr.written[idx].sector_count

C27_ResultRoundTrip ==
    [][(/\ sys'.n = sys.n + 1
        /\ sys'.id \in Syscalls
        /\ pc' = "user"
        /\ sys_ret' \in {"Ok"} \cup UserErrors)
       => IF sys_ret' = "Ok"
          THEN /\ sys'.rax # 0
               /\ syscall_decode(sys'.rax, sys'.rdx)
                      = [res |-> "Ok", val |-> <<sys'.rax, sys'.val>>]
          ELSE /\ sys'.rax = 0
               /\ sys'.rdx = UserErrorCode(sys_ret')
               /\ syscall_decode(sys'.rax, sys'.rdx).res = sys_ret']_vars

(* ---------------------------------------------------------------------- *)
(* C28: load_segments works in strict phases.  When a PT_DYNAMIC header is *)
(* handled, every page of every LOAD segment is mapped and the TLS         *)
(* template, if the file has a TLS header, is recorded; when a GNU_RELRO   *)
(* header is handled, every relocation has been applied, and no page loses *)
(* WRITABLE anywhere else in the load; when the COPIED flags are removed,  *)
(* the segments are mapped, the relocations applied and the GNU_RELRO      *)
(* pages read-only, and no page loses COPIED anywhere else in the load.    *)
(* ---------------------------------------------------------------------- *)
LoadPhases == {"ld_segments", "ld_dynamic", "ld_relro", "ld_cleanup", "ld_finish"}
TlsHeaders == {i \in 1 .. Len(elf.phs) : elf.phs[i].type = "Tls"}
DynamicHeaders == {i \in 1 .. Len(elf.phs) : elf.phs[i].type = "Dynamic"}

\* the first loop is over: the segments are mapped, the TLS template recorded
SegmentsMapped ==
    /\ \A i \in LoadHeaders :
          \A page \in RangePages(elf.phs[i], elf.phs[i].mem_size) : page \in DOMAIN pt
    /\ TlsHeaders # {} => tls_template # << >>
\* the second loop is over: the words of the relocations are in place
RelocationsApplied ==
    \A k \in 1 .. Len(elf.relas) :
        ReadWord(virtual_address_offset + elf.relas[k].offset)
            = virtual_address_offset + elf.relas[k].addend
\* the third loop is over: no page of a GNU_RELRO range is writable
RelroProtected ==
    \A i \in RelroHeaders :
        \A page \in RangePages(elf.phs[i], elf.phs[i].mem_size) :
            page \in DOMAIN pt /\ WRITABLE \notin pt[page].flags
\* a page that stays mapped loses the flag in this step
LosesFlag(flag) ==
    \E page \in DOMAIN pt \cap DOMAIN pt' :
        flag \in pt[page].flags /\ flag \notin pt'[page].flags

C28_StrictPhases ==
    /\ []((pc = "ld_dynamic" /\ elf.phs[ph_idx].type = "Dynamic") => SegmentsMapped)
    /\ []((pc = "ld_relro" /\ elf.phs[ph_idx].type = "GnuRelro") =>
             SegmentsMapped /\ RelocationsApplied)
    /\ [](pc = "ld_cleanup" => SegmentsMapped /\ RelocationsApplied /\ RelroProtected)
    /\ [][(pc \in LoadPhases /\ LosesFlag(WRITABLE)) =>
             pc = "ld_relro" /\ elf.phs[ph_idx].type = "GnuRelro"]_vars
    /\ [][(pc \in LoadPhases /\ LosesFlag(COPIED)) => pc = "ld_cleanup"]_vars

\* all four phases have run on a file with two LOAD segments, a relocation
\* and a GNU_RELRO range
C28_Witness ==
    /\ pc = "ld_finish"
    /\ Cardinality(LoadHeaders) >= 2
    /\ DynamicHeaders # {} /\ Len(elf.relas) > 0
    /\ RelroHeaders # {}
    /\ RelroProtected /\ RelocationsApplied

(* ---------------------------------------------------------------------- *)
(* C29: between the last change of the page table made for a program and   *)
(* the next transfer into user mode by enter_userspace or                  *)
(* restore_userspace the translation caches are flushed: at the transfer   *)
(* the page table is the one of the last tlb::flush_all, on the load path  *)
(* and on the exit path that restores a parent.                            *)
(* ---------------------------------------------------------------------- *)
\* load_program has returned and enter_userspace is called
EntersUserspace == pc = "loaded" /\ pc' = "user"
\* an exit has restored the parent and restore_userspace is called
RestoresUserspace ==
    /\ sys'.n = sys.n + 1
    /\ sys'.id \in {"ProgramExit", "ProgramPanic"}
    /\ pc' = "user"

PagesOfRange(range) ==
    {containing_address(addr) : addr \in range.start .. last_addr(range)}

\* the step is a call of make_range_user_accessible and does what the claim says
RangeMadeUserAccessible ==
    IF PagesOfRange(call'.range) \subseteq DOMAIN pt
    THEN /\ call'.res = "Ok"
         /\ \A page \in PagesOfRange(call'.range) :
               /\ page \in DOMAIN pt'
               /\ pt'[page].frame = pt[page].frame
               /\ pt'[page].flags = pt[page].flags \cup {USER_ACCESSIBLE}
    ELSE call'.res = "PageNotMapped"

FramesForFile(file) == file.file_len \div PageSize + 1
\* the frames allocated in this step, in order
NewFrames == SubSeq(handed_out', Len(handed_out) + 1, Len(handed_out'))

C31_FileFramesContiguous ==
    [][(pc = "ld_read" /\ FreeFrames >= FramesForFile(elf')) =>
          /\ Len(NewFrames) = FramesForFile(elf')
          /\ \A i \in 1 .. Len(NewFrames) - 1 : NewFrames[i + 1] = NewFrames[i] + 1]_vars

(* ---------------------------------------------------------------------- *)
(* C32: current_program_wait clears the confirm flag of the top program on *)
(* entry and returns only after a current_program_notify made since then   *)
(* has set the flag, so a confirmation delivered before the wait began     *)
(* does not end it; a current_program_notify made while the guard of the   *)
(* program stack is held returns false and changes neither stack, no guard *)
(* and no page table.                                                      *)
(* ---------------------------------------------------------------------- *)
\* this step is a call of current_program_notify
NotifyStep ==
    /\ sys'.id = "current_program_notify"
    /\ <<sys, sys_ret, PROGRAM_STACK, waiting>>' # <<sys, sys_ret, PROGRAM_STACK, waiting>>

C32_WaitUntilNotified ==
    [][/\ (pc = "user" /\ pc' = "wait") => ~Last(PROGRAM_STACK').confirm
       /\ (pc = "wait" /\ pc' = "user") =>
             /\ sys.id = "current_program_notify"
             /\ sys_ret = "true"
             /\ Last(PROGRAM_STACK).confirm
       /\ (pc = "wait" /\ sys.id = "ProgramWaitForConfirm") => pc' = "wait"
       /\ (NotifyStep /\ "program stack" \in locks) =>
             /\ sys_ret' = "false"
             /\ UNCHANGED <<PROGRAM_STACK, SCREEN_STACK, locks, pc, pt, tables, mem,
                            local_map>>]_vars

\* the wait of a program has returned after a notification
C32_Witness ==
    /\ pc = "user"
    /\ sys.id = "ProgramWaitForConfirm"
    /\ sys_ret = "Ok"
    /\ Last(PROGRAM_STACK).confirm

(* ---------------------------------------------------------------------- *)
(* C33: when map_page or unmap_page of the UserMemoryMapper fails (the     *)
(* page is already mapped, there is no frame for a page table, the page is *)
(* not mapped), the ledger of the program, local_map, is what it was       *)
(* before the call.                                                        *)
(* ---------------------------------------------------------------------- *)
\* this step is a call of the UserMemoryMapper's map_page or unmap_page that failed
FailedUserMapping ==
    /\ call'.n = call.n + 1
    /\ call'.op \in {"map_page", "unmap_page"}
    /\ call'.user
    /\ call'.res # "Ok"

C33_FailedCallKeepsLedger ==
    [][FailedUserMapping => local_map' = local_map]_vars

(* ---------------------------------------------------------------------- *)
(* C34: when finish_load has handed back the MemoryContext of a loaded     *)
(* program, every page of its ledger is mapped in the live page table to   *)
(* the frame and with the flags that the ledger records, so that a replay  *)
(* of the ledger gives the mappings of the loaded program.                 *)
(* ---------------------------------------------------------------------- *)
\* the ledger records what the page table holds for each of its pages
LedgerIsLive(context) ==
    \A page \in DOMAIN context :
        /\ page \in DOMAIN pt
        /\ pt[page].frame = context[page].frame
        /\ pt[page].flags = context[page].flags

C34_LedgerEqualsPageTable ==
    pc = "loaded" => LedgerIsLive(Last(PROGRAM_STACK).context)

(* ---------------------------------------------------------------------- *)
(* C35: when load_program fails, at whichever step, the live page table    *)
(* holds the translations it held before the call: no page mapped for the  *)
(* program that was given up (user stack, user heap, segments) is left.    *)
(* ---------------------------------------------------------------------- *)
\* no step but a load changes the page table after the flush that ended
\* init_memory or the last load, so at a call of load_program `flushed` is
\* the page table before the call
PageTableAtCall ==
    (pc \in {"idle", "user"} /\ loads < MaxLoads) => pt = flushed

\* this step is the one in which load_program returns an error
LoadReturnsError == result \in {"None", "Ok"} /\ result' \notin {"None", "Ok"}

C35_FailedLoadLeavesNoMapping ==
    [][LoadReturnsError => pt' = flushed]_vars

(* ---------------------------------------------------------------------- *)
(* C36: whenever control goes to user mode, by enter_userspace after a     *)
(* load or by restore_userspace after the exit of a child, no guard of the *)
(* kernel is held: those of the program stack, of the screen stack and of  *)
(* the memory mapper are free for the next syscall.                        *)
(* ---------------------------------------------------------------------- *)
KernelGuards == {"program stack", "screen stack", "memory mapper"}

OnceValues == {14, 15}
\* what a read of the MaybeUninit gives before it has been written: any bytes
UninitReads == {Uninit} \cup OnceValues

\* call_once up to the match: compare_exchange(false, true)
compare_exchange(o) ==
    IF ~o.initialized
    THEN [once |-> [o EXCEPT !.initialized = TRUE], res |-> "Ok"]
    ELSE [once |-> o, res |-> "AlreadyInit"]
\* call_once in the arm Ok(false): (*self.data.get()).as_mut_ptr().write(val)
write_data(o, val) == [o EXCEPT !.data = val]

\* what these steps leave alone
oncevars ==
    <<locks, PROGRAM_STACK, SCREEN_STACK, caller, elf, phys_addr, ph_idx, tls_template,
      result, loads, popped, user_rip, user_rsp, sys_ret, sys, flushed, mbr, machinevars,
      ulock, klog, waiting>>

\* call_once on the main path, first step; Err(AlreadyInit) is returned at once
OnceBegin ==
    /\ pc = "lib"
    /\ ret.n < MaxOps
    /\ \E r \in {compare_exchange(once)} :
          /\ once' = r.once
          /\ IF r.res = "Ok"
             THEN pc' = "once" /\ ret' = ret
             ELSE pc' = pc /\ ret' = Returned("call_once", r.res, Uninit)
    /\ UNCHANGED oncevars

\* call_once on the main path, second step: f() has returned val
OnceWrite(val) ==
    /\ pc = "once"
    /\ once' = write_data(once, val)
    /\ ret' = Returned("call_once", "Ok", val)
    /\ pc' = "lib"
    /\ UNCHANGED oncevars

\* get() in an interrupt handler, between the steps of the main path
HandlerGet ==
    /\ pc \in {"lib", "once"}
    /\ ret.n < MaxOps
    /\ \E val \in (IF get(once).res = "Ok" /\ get(once).val = Uninit
                   THEN UninitReads ELSE {get(once).val}) :
          ret' = Returned("get", get(once).res, val)
    /\ UNCHANGED <<pc, once, oncevars>>

\* call_once(|| val) in an interrupt handler, which runs to its end
HandlerCallOnce(val) ==
    /\ pc \in {"lib", "once"}
    /\ ret.n < MaxOps
    /\ \E r \in {call_once(once, val)} :
          /\ once' = r.once
          /\ ret' = Returned("handler call_once", r.res, val)
    /\ UNCHANGED <<pc, oncevars>>

OnceInit == LockInit

OnceNext ==
    \/ OnceBegin
    \/ \E val \in OnceValues : OnceWrite(val)
    \/ HandlerGet
    \/ \E val \in OnceValues : HandlerCallOnce(val)

OnceSpec == OnceInit /\ [][OnceNext]_vars

(* ---------------------------------------------------------------------- *)
(* C37: in every interleaving of call_once with get, for instance an       *)
(* interrupt handler that calls get while call_once runs its initializer,  *)
(* a get that returns Ok finds the value completely written by call_once.  *)
(* ---------------------------------------------------------------------- *)
C37_GetOkAfterWrite ==
    [][(ret'.op = "get" /\ ret'.n = ret.n + 1 /\ ret'.res = "Ok") => once.data # Uninit]_vars

(* ---------------------------------------------------------------------- *)
(* C38: after any sequence of loads, screen creations, screen removals and *)
(* exits, the screen stack has as many entries as there are programs on    *)
(* the program stack with has_screen set; the screen a program creates     *)
(* goes on top of the screen stack, it stays the top while that program is *)
(* the top program and has its screen, and the exit of a program takes off *)
(* its own screen and no other.                                            *)
(* ---------------------------------------------------------------------- *)
\* this step is a call of create_screen that returned Ok
ScreenCreated ==
    /\ sys'.n = sys.n + 1
    /\ sys'.id = "ScreenCreate"
    /\ sys_ret' = "Ok"
    /\ pc' = "user"

C38_ScreenStackMatchesPrograms ==
    /\ [](Len(SCREEN_STACK) = Cardinality(WithScreen(PROGRAM_STACK)))
    /\ [][/\ ScreenCreated =>
                /\ Last(PROGRAM_STACK').has_screen
                /\ SCREEN_STACK' = Append(SCREEN_STACK, ImageScreen)
          /\ (/\ Len(PROGRAM_STACK') = Len(PROGRAM_STACK)
              /\ PROGRAM_STACK # << >>
              /\ Last(PROGRAM_STACK).has_screen
              /\ Last(PROGRAM_STACK').has_screen) =>
                /\ Len(SCREEN_STACK') = Len(SCREEN_STACK)
                /\ Front(SCREEN_STACK') = Front(SCREEN_STACK)
                /\ Last(SCREEN_STACK').kind = Last(SCREEN_STACK).kind
          /\ (Len(PROGRAM_STACK') = Len(PROGRAM_STACK) - 1) =>
                SCREEN_STACK' = IF Last(PROGRAM_STACK).has_screen
                                THEN Front(SCREEN_STACK) ELSE SCREEN_STACK]_vars

\* a program whose parent has a text screen has created its image screen
C38_Witness ==
    /\ Len(PROGRAM_STACK) = 2
    /\ sys.id = "ScreenCreate"
    /\ sys_ret = "Ok"
    /\ PROGRAM_STACK[1].has_screen
    /\ PROGRAM_STACK[2].has_screen
    /\ SCREEN_STACK = <<TextScreen, ImageScreen>>

(* ---------------------------------------------------------------------- *)
(* C39: after any sequence of program loads and exits, whatever the        *)
(* program files, every page of the kernel stack and of the kernel heap is *)
(* mapped to the frame that init_memory gave it and does not carry         *)
(* USER_ACCESSIBLE.                                                        *)
(* ---------------------------------------------------------------------- *)
KernelPages == PagesOf(KERNEL_STACK_MEMORY) \cup PagesOf(KERNEL_HEAP_MEMORY)
NewlyMapped == (DOMAIN pt') \ (DOMAIN pt)

C40_BssPagesInsideSegment ==
    [][(pc = "ld_segments" /\ elf.phs[ph_idx].type = "Load") =>
          NewlyMapped \subseteq RangePages(elf.phs[ph_idx], elf.phs[ph_idx].mem_size)]_vars

====
